---- MODULE Spec2Model ----
(***************************************************************************)
(* NeuroSync coordination core: Command Router, Load Balancer, Failsafe    *)
(* Monitor, Buffer System and Toggle Dispatcher as state machines.         *)
(* Every component runs on one asyncio event loop: a step of the model is  *)
(* the code a coroutine runs between two suspension points (await of a     *)
(* queue, a sleep, a handler, a validator or a callback).                  *)
(* Each component has its own specification (SpecRouter, SpecLB, ...): the *)
(* components share no state, the variables of the others stay unchanged.  *)
(***************************************************************************)
EXTENDS Integers, Sequences, FiniteSets, TLC

VARIABLES
    \* ---- Command Router (src/core/command_router.py) ----
    cr_running,        \* CommandRouter.running
    command_handlers,  \* CommandRouter.command_handlers: set of <<target, type>> keys
    routing_rules,     \* CommandRouter.routing_rules: set of <<pattern, target>>
    default_handlers,  \* CommandRouter.default_handlers: set of targets
    commands,          \* every Command object created, in creation order
    command_queue,     \* CommandRouter.command_queue: indexes into commands
    active_commands,   \* CommandRouter.active_commands: command_id -> index
    command_history,   \* CommandRouter.command_history: to_dict() snapshots
    cr_metrics,        \* CommandRouter.metrics (the three counters)
    cr_putters,        \* queue_command calls suspended in command_queue.put
    cr_task,           \* position of the process_commands task
    cr_current,        \* command the processing task is executing (0: none)
    cr_now,            \* int(time.time() * 1000) as seen by queue_command
    cr_stops,          \* number of stop() calls made
    cr_calls,          \* the runs of handler bodies begun, in order
    \* ---- Load Balancer (src/core/load_balancer.py) ----
    lb_running,        \* LoadBalancer.running
    workers,           \* LoadBalancer.workers: ordered dict, as a sequence of Worker records
    tasks,             \* every Task object created, in creation order
    task_queue,        \* LoadBalancer.task_queue: heapq list of indexes into tasks
    lb_active_tasks,   \* LoadBalancer.active_tasks: ordered dict task_id -> index
    completed_tasks,   \* LoadBalancer.completed_tasks: indexes into tasks
    current_strategy,  \* LoadBalancer.current_strategy
    lb_metrics,        \* LoadBalancer.metrics (the three counters)
    lb_task,           \* position of the process_queue task
    lb_now,            \* int(time.time() * 1000) as seen by submit_task
    \* ---- Failsafe Monitor (src/core/failsafe_monitor.py) ----
    fm_running,        \* FailsafeMonitor.running
    fm_components,     \* FailsafeMonitor.components: names in dict order
    health_status,     \* FailsafeMonitor.health_status: name -> record
    fm_events,         \* FailsafeMonitor.events
    event_counters,    \* FailsafeMonitor.event_counters: ordered dict key -> timestamps
    fm_actions,        \* FailsafeMonitor.actions: FailsafeAction records in dict order
    halt_requested,    \* FailsafeMonitor.halt_requested
    fm_task,           \* position of the monitor_system_health task
    fm_clock,          \* datetime.now() in units of 10 seconds
    fm_polls,          \* number of polls made
    \* ---- Buffer System (src/core/buffer_system.py) ----
    bs_running,        \* BufferSystem.running
    buffer_entries,    \* BufferSystem.buffer_entries
    command_router,    \* BufferSystem.command_router is set
    processing_enabled,\* BufferSystem.processing_enabled
    bs_metrics,        \* BufferSystem.metrics
    bs_file,           \* content of the buffer file (NoFile when absent)
    bs_now,            \* datetime.now() in microsecond ticks
    bs_added,          \* number of add_entry calls made
    bs_fileops,        \* number of saves and loads made
    bs_last,           \* the operation that ran last and its outcome
    bs_tmp,            \* content of the temporary file of save_to_file
    bs_save,           \* position of a save_to_file call in progress
    bs_saved,          \* the contents that saves have set out to write
    \* ---- Toggle Dispatcher (src/core/toggle_dispatcher.py) ----
    toggle,            \* one Toggle object: its fields
    td_calls,          \* the change_state calls made, in the order they began
    td_fired,          \* the callbacks invoked so far, in order
    td_clock,          \* datetime.now(), advanced by each change_state call
    td_metrics,        \* ToggleDispatcher.metrics: the callback_errors counter
    \* ---- Sync Manager (src/sync_manager.py) ----
    sm_running,        \* SyncManager.running
    reference_time,    \* SyncManager.reference_time (-1: None)
    time_offset,       \* SyncManager.time_offset
    sync_history,      \* SyncManager.sync_history
    sm_metrics,        \* SyncManager.metrics (the counters and max_drift)
    sm_task,           \* position of the sync_check_loop task
    sm_clock,          \* datetime.now(timezone.utc), in seconds
    sm_result          \* the last call made by a client and what it returned

crVars == <<cr_running, command_handlers, routing_rules, default_handlers,
            commands, command_queue, active_commands, command_history,
            cr_metrics, cr_putters, cr_task, cr_current, cr_now, cr_stops,
            cr_calls>>

lbVars == <<lb_running, workers, tasks, task_queue, lb_active_tasks,
            completed_tasks, current_strategy, lb_metrics, lb_task, lb_now>>

fmVars == <<fm_running, fm_components, health_status, fm_events,
            event_counters, fm_actions, halt_requested, fm_task, fm_clock,
            fm_polls>>

bsVars == <<bs_running, buffer_entries, command_router, processing_enabled,
            bs_metrics, bs_file, bs_now, bs_added, bs_fileops, bs_last,
            bs_tmp, bs_save, bs_saved>>

snVars == <<bs_tmp, bs_save, bs_saved>>

tdVars == <<toggle, td_calls, td_fired, td_clock, td_metrics>>

smVars == <<sm_running, reference_time, time_offset, sync_history, sm_metrics,
            sm_task, sm_clock, sm_result>>

vars == <<crVars, lbVars, fmVars, bsVars, tdVars, smVars>>

\* What the steps of one component leave alone: the state of the others
notRouter == <<lbVars, fmVars, bsVars, tdVars, smVars>>

notLB == <<crVars, fmVars, bsVars, tdVars, smVars>>

notFM == <<crVars, lbVars, bsVars, tdVars, smVars>>

notBS == <<crVars, lbVars, fmVars, tdVars, smVars>>

notTD == <<crVars, lbVars, fmVars, bsVars, smVars>>

notSM == <<crVars, lbVars, fmVars, bsVars, tdVars>>

\* ---------------------------------------------------------------------------
\* Generic helpers (Python dict and list operations)
\* ---------------------------------------------------------------------------
DictPut(d, k, v) == [x \in (DOMAIN d) \cup {k} |-> IF x = k THEN v ELSE d[x]]

DictPop(d, k) == [x \in (DOMAIN d) \ {k} |-> d[x]]

EmptyDict == [x \in {} |-> 0]

\* The records a cap keeps when it keeps the oldest
LastN_oldest(lst, n) ==
    IF Len(lst) <= n THEN lst ELSE SubSeq(lst, 1, n)

\* One record more than the caps of the histories
MaxCapRecords == 1001

\* lst[-n:] of a Python list
LastN(lst, n) ==
    IF Len(lst) <= n THEN lst ELSE SubSeq(lst, Len(lst) - n + 1, Len(lst))

\* Ordered dict (insertion order kept) as a sequence of <<key, value>> pairs
ODHas(d, k) == \E i \in 1..Len(d) : d[i][1] = k

ODGet(d, k) == d[CHOOSE i \in 1..Len(d) : d[i][1] = k][2]

ODPut(d, k, v) ==
    IF ODHas(d, k)
    THEN [i \in 1..Len(d) |-> IF d[i][1] = k THEN <<k, v>> ELSE d[i]]
    ELSE Append(d, <<k, v>>)

ODPop(d, k) == SelectSeq(d, LAMBDA e : e[1] # k)

\* ===========================================================================
\* Command Router
\* ===========================================================================
MaxCommands == 3
MaxNow == 1
MaxStops == 1
MAX_COMMAND_QUEUE == 1
max_history == 1000

\* Inputs of the model: commands go to the target "system"; handlers for
\* "ping" may be registered on "engine", the rule "p" routes to "engine".
CommandTypes == {"status", "ping"}
Targets == {"system"}
HandlerTypes == {"ping"}
HandlerTargets == {"engine"}
Patterns == {"p"}
RuleTargets == {"engine"}

TerminalStatuses == {"completed", "failed", "timeout", "cancelled"}

\* str.startswith for the command types and patterns of the model
StartsWith(ctype, pattern) ==
    \/ pattern = ctype
    \/ pattern = "p" /\ ctype = "ping"
    \/ pattern = "s" /\ ctype = "status"

\* A handler is named by the dict and the key it is stored under: `via` tells
\* which lookup of _find_handler produced it
NoHandler == [via |-> "none", key |-> <<"", "">>]

Command(command_id, command_type, target) ==
    [command_id |-> command_id, command_type |-> command_type,
     target |-> target, status |-> "pending", started_at |-> FALSE,
     completed_at |-> 0, error |-> "none", retry_count |-> 0,
     handler |-> NoHandler]

\* Command.to_dict: the snapshot stored in the history
to_dict(idx, c) ==
    [command |-> idx, command_id |-> c.command_id, status |-> c.status,
     completed_at |-> (c.completed_at > 0)]

\* The routing rules that lead command c to a registered handler
RulesFor(c) ==
    {r \in routing_rules : /\ StartsWith(c.command_type, r[1])
                           /\ <<r[2], c.command_type>> \in command_handlers}

\* _find_handler with the default handler tried before the routing rules
FoundHandler_defaultfirst(c) ==
    IF <<c.target, c.command_type>> \in command_handlers
    THEN [via |-> "specific", key |-> <<c.target, c.command_type>>]
    ELSE IF c.target \in default_handlers
    THEN [via |-> "default", key |-> <<c.target, "">>]
    ELSE IF RulesFor(c) # {}
    THEN [via |-> "rule",
          key |-> <<(CHOOSE r \in RulesFor(c) : TRUE)[2], c.command_type>>]
    ELSE NoHandler

\* _find_handler: the handler returned.  The model has one pattern per
\* command type, so at most one rule applies to a command.
FoundHandler(c) ==
    IF <<c.target, c.command_type>> \in command_handlers
    THEN [via |-> "specific", key |-> <<c.target, c.command_type>>]
    ELSE IF RulesFor(c) # {}
    THEN [via |-> "rule",
          key |-> <<(CHOOSE r \in RulesFor(c) : TRUE)[2], c.command_type>>]
    ELSE IF c.target \in default_handlers
    THEN [via |-> "default", key |-> <<c.target, "">>]
    ELSE NoHandler

_find_handler(c) == FoundHandler(c) # NoHandler

_add_to_history(hist, idx, c) == LastN(Append(hist, to_dict(idx, c)), max_history)

InitRouter ==
    /\ cr_running = FALSE
    /\ command_handlers = {}
    /\ routing_rules = {}
    /\ default_handlers = {}
    /\ commands = <<>>
    /\ command_queue = <<>>
    /\ active_commands = EmptyDict
    /\ command_history = <<>>
    /\ cr_metrics = [commands_processed |-> 0, commands_failed |-> 0,
                     commands_timeout |-> 0]
    /\ cr_putters = <<>>
    /\ cr_task = "none"
    /\ cr_current = 0
    /\ cr_now = 0
    /\ cr_stops = 0
    /\ cr_calls = <<>>

CR_register_handler(command_type, target) ==
    /\ command_handlers' = command_handlers \cup {<<target, command_type>>}
    /\ UNCHANGED <<cr_running, routing_rules, default_handlers, commands,
                   command_queue, active_commands, command_history,
                   cr_metrics, cr_putters, cr_task, cr_current, cr_now,
                   cr_stops>>
    /\ UNCHANGED cr_calls
    /\ UNCHANGED notRouter

CR_add_routing_rule(pattern, target) ==
    /\ routing_rules' = {r \in routing_rules : r[1] # pattern}
                            \cup {<<pattern, target>>}
    /\ UNCHANGED <<cr_running, command_handlers, default_handlers, commands,
                   command_queue, active_commands, command_history,
                   cr_metrics, cr_putters, cr_task, cr_current, cr_now,
                   cr_stops>>
    /\ UNCHANGED cr_calls
    /\ UNCHANGED notRouter

CR_set_default_handler(target) ==
    /\ default_handlers' = default_handlers \cup {target}
    /\ UNCHANGED <<cr_running, command_handlers, routing_rules, commands,
                   command_queue, active_commands, command_history,
                   cr_metrics, cr_putters, cr_task, cr_current, cr_now,
                   cr_stops>>
    /\ UNCHANGED cr_calls
    /\ UNCHANGED notRouter

\* The clock read by queue_command moves on.
CR_tick ==
    /\ cr_now < MaxNow
    /\ cr_now' = cr_now + 1
    /\ UNCHANGED <<cr_running, command_handlers, routing_rules,
                   default_handlers, commands, command_queue, active_commands,
                   command_history, cr_metrics, cr_putters, cr_task,
                   cr_current, cr_stops>>
    /\ UNCHANGED cr_calls
    /\ UNCHANGED notRouter

\* queue_command up to the end of `await self.command_queue.put(command)`:
\* asyncio.Queue.put suspends the caller while the queue is full.
QueueIsFull(q) == Len(q) >= MAX_COMMAND_QUEUE

CR_queue_command(command_type, target) ==
    /\ Len(commands) < MaxCapRecords
    /\ LET command_id == <<cr_now, Cardinality(DOMAIN active_commands)>>
           idx == Len(commands) + 1
       IN /\ commands' = Append(commands, Command(command_id, command_type, target))
          /\ IF QueueIsFull(command_queue)
             THEN /\ cr_putters' = Append(cr_putters, idx)
                  /\ UNCHANGED <<command_queue, active_commands>>
             ELSE /\ command_queue' = Append(command_queue, idx)
                  /\ active_commands' = DictPut(active_commands, command_id, idx)
                  /\ UNCHANGED cr_putters
    /\ UNCHANGED <<cr_running, command_handlers, routing_rules,
                   default_handlers, command_history, cr_metrics, cr_task,
                   cr_current, cr_now, cr_stops>>
    /\ UNCHANGED cr_calls
    /\ UNCHANGED notRouter

\* A suspended put is resumed once the queue has a free slot; queue_command
\* then runs to its return.
CR_queue_command_resume ==
    /\ cr_putters # <<>>
    /\ ~QueueIsFull(command_queue)
    /\ LET idx == Head(cr_putters)
       IN /\ command_queue' = Append(command_queue, idx)
          /\ active_commands' =
                 DictPut(active_commands, commands[idx].command_id, idx)
    /\ cr_putters' = Tail(cr_putters)
    /\ UNCHANGED <<cr_running, command_handlers, routing_rules,
                   default_handlers, commands, command_history, cr_metrics,
                   cr_task, cr_current, cr_now, cr_stops>>
    /\ UNCHANGED cr_calls
    /\ UNCHANGED notRouter

\* The `finally` block of execute_command.
CR_finish(cmds, idx) ==
    /\ commands' = cmds
    /\ command_history' = _add_to_history(command_history, idx, cmds[idx])
    /\ active_commands' = DictPop(active_commands, cmds[idx].command_id)

\* _call_handler tries three calling conventions in turn: handler(command),
\* handler(command_type, payload), handler(payload).  Args is the number of
\* positional arguments of each.
Args(pattern) == IF pattern = 2 THEN 2 ELSE 1

\* The first convention after `after` that a handler of `params` positional
\* parameters takes (0: none); the others raise TypeError before the body runs.
NextPattern(params, after) ==
    IF \E p \in (after + 1)..3 : Args(p) = params
    THEN CHOOSE p \in (after + 1)..3 :
             /\ Args(p) = params
             /\ \A q \in (after + 1)..(p - 1) : Args(q) # params
    ELSE 0

\* _call_handler on a synchronous handler: the conventions under which the body
\* ran and what the call ended with.  outs gives the outcome of each run of the
\* body in turn (the last one repeats).  `except TypeError` does not tell a
\* TypeError raised by the body from one raised for the shape of the call.
RECURSIVE _call_handler(_, _, _)
_call_handler(params, after, outs) ==
    LET pattern == NextPattern(params, after)
        rest == IF Len(outs) > 1 THEN Tail(outs) ELSE outs
    IN IF pattern = 0
       THEN [patterns |-> <<>>, result |-> "raise_typeerror"]
       ELSE IF Head(outs) = "raise_typeerror" /\ pattern < 3
       THEN LET later == _call_handler(params, pattern, rest)
            IN [patterns |-> <<pattern>> \o later.patterns,
                result |-> later.result]
       ELSE [patterns |-> <<pattern>>, result |-> Head(outs)]

\* The record of one run of a handler body
HandlerCall(idx, pattern, params) ==
    [command |-> idx, pattern |-> pattern, params |-> params]

\* process_commands: command_queue.get() returns and execute_command runs up
\* to its first suspension point.  handler_is_async tells whether the handler
\* found is a coroutine function, params how many positional parameters it
\* has, outs what the runs of a synchronous handler's body end with.
CR_process_commands(handler_is_async, params, outs) ==
    /\ cr_task = "get"
    /\ command_queue # <<>>
    /\ LET idx == Head(command_queue)
           c == [commands[idx] EXCEPT !.status = "processing",
                                      !.started_at = TRUE,
                                      !.handler = FoundHandler(commands[idx])]
           called == _call_handler(params, 0, outs)
       IN /\ command_queue' = Tail(command_queue)
          /\ IF ~_find_handler(c)
             THEN /\ CR_finish([commands EXCEPT ![idx] =
                        [c EXCEPT !.status = "failed", !.error = "no handler",
                                  !.completed_at = @ + 1]], idx)
                  /\ cr_metrics' = [cr_metrics EXCEPT !.commands_failed = @ + 1]
                  /\ UNCHANGED <<cr_task, cr_current, cr_calls>>
             ELSE IF handler_is_async
             THEN /\ commands' = [commands EXCEPT ![idx] = c]
                  /\ cr_task' = "exec"
                  /\ cr_current' = idx
                  /\ cr_calls' = Append(cr_calls,
                         HandlerCall(idx, NextPattern(params, 0), params))
                  /\ UNCHANGED <<command_history, active_commands, cr_metrics>>
             ELSE IF called.result # "return"
             THEN /\ CR_finish([commands EXCEPT ![idx] =
                        [c EXCEPT !.status = "failed", !.error = "handler",
                                  !.completed_at = @ + 1]], idx)
                  /\ cr_metrics' = [cr_metrics EXCEPT !.commands_failed = @ + 1]
                  /\ cr_calls' = cr_calls \o
                         [k \in 1..Len(called.patterns) |->
                             HandlerCall(idx, called.patterns[k], params)]
                  /\ UNCHANGED <<cr_task, cr_current>>
             ELSE /\ CR_finish([commands EXCEPT ![idx] =
                        [c EXCEPT !.status = "completed",
                                  !.completed_at = @ + 1]], idx)
                  /\ cr_metrics' = [cr_metrics EXCEPT !.commands_processed = @ + 1]
                  /\ cr_calls' = cr_calls \o
                         [k \in 1..Len(called.patterns) |->
                             HandlerCall(idx, called.patterns[k], params)]
                  /\ UNCHANGED <<cr_task, cr_current>>
    /\ UNCHANGED <<cr_running, command_handlers, routing_rules,
                   default_handlers, cr_putters, cr_now, cr_stops>>
    /\ UNCHANGED notRouter

\* The same with a handler that takes the command and whose body either
\* returns or raises an error other than TypeError.
CR_process_get(handler_is_async, sync_raises) ==
    CR_process_commands(handler_is_async, 1,
                        IF sync_raises THEN <<"raise">> ELSE <<"return">>)

\* The metrics after a timeout when the handler for Exception runs as well
OnTimeout_alsofailed(m) ==
    [m EXCEPT !.commands_timeout = @ + 1, !.commands_failed = @ + 1]

\* The metrics after the handler for asyncio.TimeoutError has run
OnTimeout(m) == [m EXCEPT !.commands_timeout = @ + 1]

\* The awaited handler returns, raises, or the deadline of wait_for expires.
\* A TypeError out of the awaited body is caught like one raised for the shape
\* of the call: the next convention the handler takes is awaited.
CR_handler_done(outcome) ==
    /\ cr_task = "exec"
    /\ LET idx == cr_current
           c == commands[idx]
           last == cr_calls[Len(cr_calls)]
           again == IF last.pattern < 3
                    THEN NextPattern(last.params, last.pattern) ELSE 0
       IN CASE outcome = "return" ->
                 /\ CR_finish([commands EXCEPT ![idx] =
                        [c EXCEPT !.status = "completed",
                                  !.completed_at = @ + 1]], idx)
                 /\ cr_metrics' = [cr_metrics EXCEPT !.commands_processed = @ + 1]
                 /\ cr_task' = "get"
                 /\ cr_current' = 0
                 /\ UNCHANGED cr_calls
            [] outcome = "timeout" ->
                 /\ CR_finish([commands EXCEPT ![idx] =
                        [c EXCEPT !.status = "timeout", !.error = "timeout",
                                  !.completed_at = @ + 1]], idx)
                 /\ cr_metrics' = OnTimeout(cr_metrics)
                 /\ cr_task' = "get"
                 /\ cr_current' = 0
                 /\ UNCHANGED cr_calls
            [] outcome = "raise_typeerror" /\ again # 0 ->
                 /\ cr_calls' = Append(cr_calls,
                                       HandlerCall(idx, again, last.params))
                 /\ UNCHANGED <<commands, command_history, active_commands,
                                cr_metrics, cr_task, cr_current>>
            [] OTHER ->
                 /\ CR_finish([commands EXCEPT ![idx] =
                        [c EXCEPT !.status = "failed", !.error = "handler",
                                  !.completed_at = @ + 1]], idx)
                 /\ cr_metrics' = [cr_metrics EXCEPT !.commands_failed = @ + 1]
                 /\ cr_task' = "get"
                 /\ cr_current' = 0
                 /\ UNCHANGED cr_calls
    /\ UNCHANGED <<cr_running, command_handlers, routing_rules,
                   default_handlers, command_queue, cr_putters, cr_now,
                   cr_stops>>
    /\ UNCHANGED notRouter

\* _setup_default_handlers
DefaultHandlerKeys == {<<"system", "status">>, <<"system", "health">>}

CR_start ==
    /\ ~cr_running
    /\ cr_running' = TRUE
    /\ command_handlers' = command_handlers \cup DefaultHandlerKeys
    /\ cr_task' = "get"
    /\ UNCHANGED <<routing_rules, default_handlers, commands, command_queue,
                   active_commands, command_history, cr_metrics, cr_putters,
                   cr_current, cr_now, cr_stops>>
    /\ UNCHANGED cr_calls
    /\ UNCHANGED notRouter

\* Marks every command of active_commands cancelled (the loop of stop()).
CancelActive(cmds, active) ==
    [i \in 1..Len(cmds) |->
        IF \E k \in DOMAIN active : active[k] = i
        THEN [cmds[i] EXCEPT !.status = "cancelled", !.error = "shutdown",
                             !.completed_at = @ + 1]
        ELSE cmds[i]]

\* stop(): the processing task is cancelled and awaited.  A task suspended in
\* the handler gets CancelledError, which is not an Exception: only the
\* `finally` block of execute_command runs for the command in flight.
CR_stop ==
    /\ cr_running
    /\ cr_stops < MaxStops
    /\ cr_stops' = cr_stops + 1
    /\ cr_running' = FALSE
    /\ cr_task' = "none"
    /\ cr_current' = 0
    /\ IF cr_task = "exec"
       THEN LET idx == cr_current
                active == DictPop(active_commands, commands[idx].command_id)
            IN /\ command_history' =
                      _add_to_history(command_history, idx, commands[idx])
               /\ active_commands' = active
               /\ commands' = CancelActive(commands, active)
       ELSE /\ commands' = CancelActive(commands, active_commands)
            /\ UNCHANGED <<command_history, active_commands>>
    /\ UNCHANGED <<command_handlers, routing_rules, default_handlers,
                   command_queue, cr_metrics, cr_putters, cr_now>>
    /\ UNCHANGED cr_calls
    /\ UNCHANGED notRouter

NextRouter ==
    \/ \E t \in HandlerTypes, g \in HandlerTargets : CR_register_handler(t, g)
    \/ \E p \in Patterns, g \in RuleTargets : CR_add_routing_rule(p, g)
    \/ \E g \in Targets : CR_set_default_handler(g)
    \/ CR_tick
    \/ \E t \in CommandTypes, g \in Targets :
           Len(commands) < MaxCommands /\ CR_queue_command(t, g)
    \/ CR_queue_command_resume
    \/ \E a \in BOOLEAN, r \in BOOLEAN : CR_process_get(a, r)
    \/ \E o \in {"return", "raise", "timeout"} : CR_handler_done(o)
    \/ CR_start
    \/ CR_stop

\* Handler resolution: handlers on the command's own target and on the rule's
\* target, a rule that leads to a target with and without a handler, and a
\* default handler
RoutingTargets == {"system", "engine"}
RoutingRuleTargets == {"engine", "gateway"}

NextRouting ==
    \/ \E g \in RoutingTargets : CR_register_handler("ping", g)
    \/ \E g \in RoutingRuleTargets : CR_add_routing_rule("p", g)
    \/ CR_set_default_handler("system")
    \/ \E t \in CommandTypes :
           Len(commands) < MaxCommands /\ CR_queue_command(t, "system")
    \/ CR_queue_command_resume
    \/ \E a \in BOOLEAN : CR_process_get(a, FALSE)
    \/ CR_handler_done("return")
    \/ CR_start

\* Calling conventions: handlers of one and of two positional parameters,
\* synchronous and coroutine, whose bodies return, raise TypeError or raise
\* another error
HandlerParams == {1, 2}
BodyOutcomes ==
    {<<"return">>, <<"raise">>, <<"raise_typeerror">>,
     <<"raise_typeerror", "return">>}

NextRouterCalls ==
    \/ CR_register_handler("ping", "system")
    \/ Len(commands) < MaxCommands /\ CR_queue_command("ping", "system")
    \/ CR_queue_command_resume
    \/ \E a \in BOOLEAN, params \in HandlerParams, outs \in BodyOutcomes :
           CR_process_commands(a, params, outs)
    \/ \E o \in {"return", "raise", "raise_typeerror", "timeout"} :
           CR_handler_done(o)
    \/ CR_start
    \/ CR_stop

\* ---------------------------------------------------------------------------
\* Command Router: properties
\* ---------------------------------------------------------------------------

\* C1: a command that has reached one of the statuses completed, failed,
\* timeout or cancelled keeps that status in every later step, and its
\* completed_at is never assigned a second time.
C1_TerminalStatusIsFinal ==
    [][\A i \in 1..Len(commands) :
          /\ commands[i].status \in TerminalStatuses
                => commands'[i].status = commands[i].status
          /\ commands'[i].completed_at <= 1]_vars

\* C9: queue_command never suspends its caller: a call made while the queue
\* holds MAX_COMMAND_QUEUE commands returns at once with the queue-full error,
\* so no call is ever parked inside command_queue.put.
C9_QueueFullRaises == cr_putters = <<>>

\* C21: when the processing loop takes up a command, the handler it uses is
\* the one registered under target.type; failing that, one registered under
\* ruleTarget.type for a routing rule whose pattern is a prefix of the command
\* type; failing that, the default handler of the command's target; failing
\* that, no handler runs and the command ends failed with the no-handler
\* error.
C21_HandlerResolutionOrder ==
    [][\A i \in 1..Len(commands) :
          (~commands[i].started_at /\ commands'[i].started_at) =>
             LET c == commands[i]
                 h == commands'[i].handler
                 specific == <<c.target, c.command_type>> \in command_handlers
                 ruled == {<<r[2], c.command_type>> : r \in
                             {x \in routing_rules :
                                 StartsWith(c.command_type, x[1])}}
                            \cap command_handlers
             IN /\ specific => h.key = <<c.target, c.command_type>>
                /\ (~specific /\ ruled # {}) => h.key \in ruled
                /\ (~specific /\ ruled = {} /\ c.target \in default_handlers)
                      => h = [via |-> "default", key |-> <<c.target, "">>]
                /\ (~specific /\ ruled = {} /\ c.target \notin default_handlers)
                      => /\ h = NoHandler
                         /\ commands'[i].status = "failed"
                         /\ commands'[i].error = "no handler"
                         /\ cr_task' = "get"
                /\ h.via \in {"specific", "rule"} => h.key \in command_handlers]_vars

\* C21 witness: the first command found no handler and failed, the second ran
\* on the default handler of its target, and the third, taken up with that
\* default handler still set, ran on the handler its routing rule leads to
C21_Witness_NoneDefaultRule ==
    /\ Len(commands) = 3
    /\ commands[1].handler = NoHandler /\ commands[1].status = "failed"
    /\ commands[2].handler.via = "default" /\ commands[2].status = "completed"
    /\ commands[3].handler.via = "rule" /\ commands[3].status = "completed"
    /\ commands[3].target \in default_handlers

\* The number of times a handler body was run for command i
BodyRuns(i) == Cardinality({k \in 1..Len(cr_calls) : cr_calls[k].command = i})

\* C35: while one command is executed the body of its handler runs at most
\* once: another calling convention is tried only after a call that was
\* rejected for the shape of its arguments, and an error raised inside the body,
\* whatever its type, ends the command without a further run of the handler.
C35_HandlerBodyRunsAtMostOnce ==
    \A i \in 1..Len(commands) : BodyRuns(i) <= 1

\* C22: every record of the history has a terminal status and a completed_at,
\* no command has two records in the history, and no command id is in
\* active_commands and in the history at once.
C22_HistoryHoldsFinishedCommandsOnce ==
    /\ \A h \in 1..Len(command_history) :
          /\ command_history[h].status \in TerminalStatuses
          /\ command_history[h].completed_at
    /\ \A h, k \in 1..Len(command_history) :
          command_history[h].command = command_history[k].command => h = k
    /\ \A h \in 1..Len(command_history) :
          command_history[h].command_id \notin DOMAIN active_commands

\* C24: no two commands, no two tasks and no two buffer entries created in
\* the run carry the same identifier.  (Failsafe events take their id from
\* the millisecond clock alone; the monitor's clock is modelled in poll
\* intervals, so they are left to the other three.)
C24_IdentifiersAreUnique ==
    /\ \A i, j \in 1..Len(commands) :
          commands[i].command_id = commands[j].command_id => i = j
    /\ \A i, j \in 1..Len(tasks) :
          tasks[i].task_id = tasks[j].task_id => i = j
    /\ \A i, j \in 1..Len(buffer_entries) :
          buffer_entries[i].entry_id = buffer_entries[j].entry_id => i = j

\* Command i is in active_commands
IsActive(i) == \E k \in DOMAIN active_commands : active_commands[k] = i

\* C19: a step in which stop() runs leaves every command that was active
\* (queued or being executed) cancelled with completed_at set, and a cancelled
\* command is not taken up by the processing loop in any later step, also
\* after the router has been started again.
C19_StopCancelsActiveCommands ==
    [][\A i \in 1..Len(commands) :
          /\ (cr_running /\ ~cr_running' /\ IsActive(i))
                => /\ commands'[i].status = "cancelled"
                   /\ commands'[i].completed_at > 0
          /\ commands[i].status = "cancelled"
                => /\ commands'[i].status = "cancelled"
                   /\ cr_current' # i]_vars

\* Outcome counters of the router: processed, failed, timeout
Counters(m) == <<m.commands_processed, m.commands_failed, m.commands_timeout>>

\* C20: when the handler of a command exceeds COMMAND_TIMEOUT the command
\* gets status timeout and the timeout error, only the timeout counter grows,
\* the command is moved from active_commands to the history and is not put
\* back into the queue; a command with status timeout is never executed again.
C20_TimeoutIsFinalAndCountedOnce ==
    [][\A i \in 1..Len(commands) :
          /\ (commands[i].status # "timeout" /\ commands'[i].status = "timeout")
                => /\ commands'[i].error = "timeout"
                   /\ commands'[i].retry_count = commands[i].retry_count
                   /\ Counters(cr_metrics')
                        = <<cr_metrics.commands_processed,
                            cr_metrics.commands_failed,
                            cr_metrics.commands_timeout + 1>>
                   /\ ~\E k \in DOMAIN active_commands' :
                         active_commands'[k] = i
                   /\ command_history' # <<>>
                   /\ command_history'[Len(command_history')].command = i
                   /\ command_history'[Len(command_history')].status = "timeout"
                   /\ command_queue' = command_queue
          /\ commands[i].status = "timeout"
                => /\ commands'[i] = commands[i]
                   /\ cr_current' # i
                   /\ \A k \in 1..Len(command_queue') : command_queue'[k] # i]_vars

\* C20 witness: a command has timed out, is in the history with that status,
\* and a command queued behind it has been executed since
C20_Witness_TimedOutThenNext ==
    \E i, j \in 1..Len(commands) :
       /\ i < j
       /\ commands[i].status = "timeout"
       /\ cr_metrics.commands_timeout = 1
       /\ commands[j].status = "completed"
       /\ \E h \in 1..Len(command_history) :
             command_history[h].command = i /\ command_history[h].status = "timeout"

\* ===========================================================================
\* Load Balancer
\* ===========================================================================
MaxTasks == 2
MaxQueueTasks == 3
MaxConcurrent == 2
max_completed_history == 1000

\* Inputs of the model.  Worker "w1" takes every task type with a capacity of
\* 1..MaxConcurrent, worker "w2" takes type "a" only, one task at a time.
WorkerIds == {"w1", "w2"}
WorkerConfigs ==
    {<<"w1", m, {"*"}>> : m \in 1..MaxConcurrent} \cup {<<"w2", 1, {"a"}>>}
TaskTypes == {"a", "b"}
\* TaskPriority values: LOW = 1, NORMAL = 2, HIGH = 3, CRITICAL = 4
Priorities == {2}
Strategies == {"round_robin", "resource_aware"}

Task(task_id, task_type, priority) ==
    [task_id |-> task_id, task_type |-> task_type, priority |-> priority,
     assigned_at |-> FALSE, completed_at |-> 0, worker_id |-> "none",
     result |-> "none", error |-> "none",
     \* the _execute_task coroutine of the task, and whether the Worker
     \* object it holds is still the one registered under worker_id
     exec |-> "none", worker_live |-> FALSE]

Worker(worker_id, max_concurrent, task_types) ==
    [worker_id |-> worker_id, max_concurrent |-> max_concurrent,
     active_tasks |-> <<>>, completed_tasks |-> 0, failed_tasks |-> 0,
     task_types |-> task_types, available |-> TRUE]

\* Task.__lt__ with the comparison turned round: a lower value sorts first
TaskLt_ascending(a, b) == a.priority < b.priority

\* Task.__lt__ for tasks a and b: a higher priority value sorts first
TaskLt(a, b) == a.priority > b.priority

\* heapq._siftdown(heap, startpos, pos), positions counted from 0; the heap
\* holds indexes into ts
RECURSIVE _siftdown_loop(_, _, _, _, _)
_siftdown_loop(ts, heap, startpos, pos, newitem) ==
    IF pos > startpos
    THEN LET parentpos == (pos - 1) \div 2
             parent == heap[parentpos + 1]
         IN IF TaskLt(ts[newitem], ts[parent])
            THEN _siftdown_loop(ts, [heap EXCEPT ![pos + 1] = parent],
                                startpos, parentpos, newitem)
            ELSE [heap EXCEPT ![pos + 1] = newitem]
    ELSE [heap EXCEPT ![pos + 1] = newitem]

_siftdown(ts, heap, startpos, pos) ==
    _siftdown_loop(ts, heap, startpos, pos, heap[pos + 1])

\* heapq._siftup(heap, pos)
RECURSIVE _siftup_loop(_, _, _, _, _)
_siftup_loop(ts, heap, startpos, pos, newitem) ==
    LET endpos == Len(heap)
        leftpos == 2 * pos + 1
    IN IF leftpos < endpos
       THEN LET rightpos == leftpos + 1
                childpos == IF rightpos < endpos
                               /\ ~TaskLt(ts[heap[leftpos + 1]],
                                          ts[heap[rightpos + 1]])
                            THEN rightpos ELSE leftpos
            IN _siftup_loop(ts, [heap EXCEPT ![pos + 1] = heap[childpos + 1]],
                            startpos, childpos, newitem)
       ELSE _siftdown(ts, [heap EXCEPT ![pos + 1] = newitem], startpos, pos)

_siftup(ts, heap, pos) == _siftup_loop(ts, heap, pos, pos, heap[pos + 1])

heappush(ts, heap, item) == _siftdown(ts, Append(heap, item), 0, Len(heap))

\* heapq.heappop: the item returned and the heap left
heappop_item(heap) == heap[1]

heappop_rest(ts, heap) ==
    LET lastelt == heap[Len(heap)]
        rest == SubSeq(heap, 1, Len(heap) - 1)
    IN IF rest = <<>> THEN rest
       ELSE _siftup(ts, [rest EXCEPT ![1] = lastelt], 0)

WorkerPos(ws, worker_id) == CHOOSE i \in 1..Len(ws) : ws[i].worker_id = worker_id

HasWorker(ws, worker_id) == \E i \in 1..Len(ws) : ws[i].worker_id = worker_id

\* _get_available_workers with a capacity test that is off by one
_get_available_workers_offbyone(ws, task_type) ==
    SelectSeq(ws, LAMBDA w :
        /\ w.available
        /\ ("*" \in w.task_types \/ task_type \in w.task_types)
        /\ ~(Len(w.active_tasks) > w.max_concurrent))

_get_available_workers(ws, task_type) ==
    SelectSeq(ws, LAMBDA w :
        /\ w.available
        /\ ("*" \in w.task_types \/ task_type \in w.task_types)
        /\ ~(Len(w.active_tasks) >= w.max_concurrent))

\* Python's min(seq, key=...): the first element whose key is smallest;
\* less(a, b) compares the keys of a and b
\* list.sort(key=...): the stable sort of seq by the strict order less
StableSort(seq, less(_, _)) ==
    LET rank(i) ==
            Cardinality({j \in 1..Len(seq) :
                            \/ less(seq[j], seq[i])
                            \/ (~less(seq[i], seq[j]) /\ j < i)}) + 1
    IN [r \in 1..Len(seq) |-> seq[CHOOSE i \in 1..Len(seq) : rank(i) = r]]

MinFirst(seq, less(_, _)) ==
    seq[CHOOSE i \in 1..Len(seq) :
            /\ \A j \in 1..Len(seq) : ~less(seq[j], seq[i])
            /\ \A j \in 1..(i - 1) : less(seq[i], seq[j])]

_round_robin_strategy(ws) ==
    MinFirst(ws, LAMBDA a, b : a.completed_tasks < b.completed_tasks)

_least_loaded_strategy(ws) ==
    MinFirst(ws, LAMBDA a, b : Len(a.active_tasks) < Len(b.active_tasks))

_priority_first_strategy(ws, t) ==
    IF t.priority \in {3, 4}
    THEN MinFirst(ws, LAMBDA a, b : Len(a.active_tasks) < Len(b.active_tasks))
    ELSE _least_loaded_strategy(ws)

\* utilization = len(active_tasks) / max_concurrent, compared as fractions
_resource_aware_strategy(ws) ==
    MinFirst(ws, LAMBDA a, b :
        Len(a.active_tasks) * b.max_concurrent
            < Len(b.active_tasks) * a.max_concurrent)

\* select_worker: the worker_id chosen, "none" when no worker is available
select_worker(ws, t, strategy) ==
    LET available_workers == _get_available_workers(ws, t.task_type)
    IN IF available_workers = <<>> THEN "none"
       ELSE (CASE strategy = "round_robin" ->
                      _round_robin_strategy(available_workers)
               [] strategy = "priority_first" ->
                      _priority_first_strategy(available_workers, t)
               [] strategy = "resource_aware" ->
                      _resource_aware_strategy(available_workers)
               [] OTHER -> _least_loaded_strategy(available_workers)).worker_id

InitLB ==
    /\ lb_running = FALSE
    /\ workers = <<>>
    /\ tasks = <<>>
    /\ task_queue = <<>>
    /\ lb_active_tasks = <<>>
    /\ completed_tasks = <<>>
    /\ current_strategy = "least_loaded"
    /\ lb_metrics = [tasks_queued |-> 0, tasks_completed |-> 0,
                     tasks_failed |-> 0]
    /\ lb_task = "none"
    /\ lb_now = 0

\* The Worker objects held by running tasks under worker_id are no longer the
\* registered one.
Orphan(ts, worker_id) ==
    [i \in 1..Len(ts) |->
        IF ts[i].worker_id = worker_id
        THEN [ts[i] EXCEPT !.worker_live = FALSE] ELSE ts[i]]

LB_register_worker(worker_id, max_concurrent, task_types) ==
    /\ LET w == Worker(worker_id, max_concurrent, task_types)
       IN workers' = IF HasWorker(workers, worker_id)
                     THEN [workers EXCEPT ![WorkerPos(workers, worker_id)] = w]
                     ELSE Append(workers, w)
    /\ tasks' = Orphan(tasks, worker_id)
    /\ UNCHANGED <<lb_running, task_queue, lb_active_tasks, completed_tasks,
                   current_strategy, lb_metrics, lb_task, lb_now>>
    /\ UNCHANGED notLB

\* _complete_task on the state <<active, ws, hist>> for task i of ts
_complete_task(st, ts, i) ==
    LET t == ts[i]
    IN [active |-> ODPop(st.active, t.task_id),
        ws |-> IF t.worker_id # "none" /\ HasWorker(st.ws, t.worker_id)
               THEN [st.ws EXCEPT ![WorkerPos(st.ws, t.worker_id)].active_tasks =
                                     ODPop(@, t.task_id)]
               ELSE st.ws,
        hist |-> LastN(Append(st.hist, i), max_completed_history),
        ts |-> ts]

\* The loop of unregister_worker over list(worker.active_tasks.keys())
RECURSIVE UnregisterLoop(_, _, _)
UnregisterLoop(st, keys, worker_id) ==
    IF keys = <<>> THEN st
    ELSE LET task_id == Head(keys)
         IN IF ODHas(st.active, task_id)
            THEN LET i == ODGet(st.active, task_id)
                     ts == [st.ts EXCEPT ![i].error = "worker unregistered"]
                 IN UnregisterLoop(_complete_task(st, ts, i), Tail(keys),
                                   worker_id)
            ELSE UnregisterLoop(st, Tail(keys), worker_id)

LB_unregister_worker(worker_id) ==
    /\ HasWorker(workers, worker_id)
    /\ LET w == workers[WorkerPos(workers, worker_id)]
           keys == [k \in 1..Len(w.active_tasks) |-> w.active_tasks[k][1]]
           st == UnregisterLoop([active |-> lb_active_tasks, ws |-> workers,
                                 hist |-> completed_tasks, ts |-> tasks],
                                keys, worker_id)
       IN /\ workers' = SelectSeq(st.ws, LAMBDA x : x.worker_id # worker_id)
          /\ lb_active_tasks' = st.active
          /\ completed_tasks' = st.hist
          /\ tasks' = Orphan(st.ts, worker_id)
    /\ UNCHANGED <<lb_running, task_queue, current_strategy, lb_metrics,
                   lb_task, lb_now>>
    /\ UNCHANGED notLB

\* submit_task; ms is the value of int(time.time() * 1000) the call reads
LB_submit_task(task_type, priority, ms) ==
    /\ Len(tasks) < MaxCapRecords
    /\ ms >= lb_now
    /\ lb_now' = ms
    /\ LET task_id == <<ms, Len(lb_active_tasks)>>
           i == Len(tasks) + 1
       IN /\ tasks' = Append(tasks, Task(task_id, task_type, priority))
          /\ task_queue' = heappush(tasks', task_queue, i)
          /\ lb_active_tasks' = ODPut(lb_active_tasks, task_id, i)
    /\ lb_metrics' = [lb_metrics EXCEPT !.tasks_queued = @ + 1]
    /\ UNCHANGED <<lb_running, workers, completed_tasks, current_strategy,
                   lb_task>>
    /\ UNCHANGED notLB

LB_set_strategy(strategy) ==
    /\ current_strategy' = strategy
    /\ UNCHANGED <<lb_running, workers, tasks, task_queue, lb_active_tasks,
                   completed_tasks, lb_metrics, lb_task, lb_now>>
    /\ UNCHANGED notLB

\* assign_task: the task is bound to the worker and _execute_task is spawned
assign_task(ts, ws, i, worker_id) ==
    [ts |-> [ts EXCEPT ![i].assigned_at = TRUE, ![i].worker_id = worker_id,
                       ![i].exec = "running", ![i].worker_live = TRUE],
     ws |-> [ws EXCEPT ![WorkerPos(ws, worker_id)].active_tasks =
                           ODPut(@, ts[i].task_id, i)]]

\* One pass of the loop of process_queue with a non-empty queue
LB_process_queue ==
    /\ lb_task = "run"
    /\ task_queue # <<>>
    /\ LET i == heappop_item(task_queue)
           rest == heappop_rest(tasks, task_queue)
           worker_id == select_worker(workers, tasks[i], current_strategy)
       IN IF worker_id # "none"
          THEN LET a == assign_task(tasks, workers, i, worker_id)
               IN /\ tasks' = a.ts
                  /\ workers' = a.ws
                  /\ task_queue' = rest
          ELSE /\ task_queue' = heappush(tasks, rest, i)
               /\ UNCHANGED <<tasks, workers>>
    /\ UNCHANGED <<lb_running, lb_active_tasks, completed_tasks,
                   current_strategy, lb_metrics, lb_task, lb_now>>
    /\ UNCHANGED notLB

\* The worker after a failure of one of its tasks that goes uncounted
OnTaskFailure_uncounted(w) == w

\* worker.failed_tasks += 1 in the except clauses of _execute_task
OnTaskFailure(w) == [w EXCEPT !.failed_tasks = @ + 1]

\* _execute_task: the handler returns a value that is true in a condition
\* ("return") or one that is false (None, 0, an empty dict: "return_falsy"),
\* raises or exceeds TASK_TIMEOUT; the
\* counters of the Worker object passed to _execute_task are updated, then
\* _complete_task runs.
LB_execute_done(i, outcome) ==
    /\ i \in 1..Len(tasks)
    /\ tasks[i].exec = "running"
    /\ LET t == tasks[i]
           ok == outcome \in {"return", "return_falsy"}
           ts == [tasks EXCEPT
                    ![i].exec = "done",
                    ![i].completed_at = @ + 1,
                    ![i].result = IF outcome = "return" THEN "value"
                                  ELSE IF ok THEN "falsy" ELSE @,
                    ![i].error = IF ok THEN @
                                 ELSE IF outcome = "timeout" THEN "timeout"
                                 ELSE "handler"]
           ws == IF t.worker_live
                 THEN [workers EXCEPT ![WorkerPos(workers, t.worker_id)] =
                         IF ok THEN [@ EXCEPT !.completed_tasks = @ + 1]
                         ELSE OnTaskFailure(@)]
                 ELSE workers
           st == _complete_task([active |-> lb_active_tasks, ws |-> ws,
                                 hist |-> completed_tasks, ts |-> ts], ts, i)
       IN /\ tasks' = ts
          /\ workers' = st.ws
          /\ lb_active_tasks' = st.active
          /\ completed_tasks' = st.hist
          /\ lb_metrics' = IF ok
                           THEN [lb_metrics EXCEPT !.tasks_completed = @ + 1]
                           ELSE [lb_metrics EXCEPT !.tasks_failed = @ + 1]
    /\ UNCHANGED <<lb_running, task_queue, current_strategy, lb_task, lb_now>>
    /\ UNCHANGED notLB

\* get_task_info(task_id): the status the caller is given ("none" for None),
\* with the result and the error of the task found
RECURSIVE LastCompleted(_, _, _)
LastCompleted(hist, ts, task_id) ==
    IF hist = <<>> THEN 0
    ELSE IF ts[hist[Len(hist)]].task_id = task_id THEN hist[Len(hist)]
    ELSE LastCompleted(SubSeq(hist, 1, Len(hist) - 1), ts, task_id)

\* The truth value of task.result in a condition: "none" is the None the
\* field is constructed with, "falsy" a returned value that is false
Truthy(result) == result = "value"

get_task_info(active, hist, ts, task_id) ==
    IF ODHas(active, task_id)
    THEN [status |-> "active", result |-> "none", error |-> "none"]
    ELSE LET i == LastCompleted(hist, ts, task_id)
         IN IF i = 0
            THEN [status |-> "none", result |-> "none", error |-> "none"]
            ELSE [status |-> IF Truthy(ts[i].result) THEN "completed"
                             ELSE "failed",
                  result |-> ts[i].result, error |-> ts[i].error]

LB_start ==
    /\ ~lb_running
    /\ lb_running' = TRUE
    /\ lb_task' = "run"
    /\ UNCHANGED <<workers, tasks, task_queue, lb_active_tasks,
                   completed_tasks, current_strategy, lb_metrics, lb_now>>
    /\ UNCHANGED notLB

LB_stop ==
    /\ lb_running
    /\ lb_running' = FALSE
    /\ lb_task' = "none"
    /\ UNCHANGED <<workers, tasks, task_queue, lb_active_tasks,
                   completed_tasks, current_strategy, lb_metrics, lb_now>>
    /\ UNCHANGED notLB

NextLB ==
    \/ \E c \in WorkerConfigs : LB_register_worker(c[1], c[2], c[3])
    \/ \E w \in WorkerIds : LB_unregister_worker(w)
    \/ \E tt \in TaskTypes, p \in Priorities, ms \in 0..MaxNow :
           Len(tasks) < MaxTasks /\ LB_submit_task(tt, p, ms)
    \/ \E st \in Strategies : LB_set_strategy(st)
    \/ LB_process_queue
    \/ \E i \in 1..MaxTasks, o \in {"return", "raise", "timeout"} :
           LB_execute_done(i, o)
    \/ LB_start
    \/ LB_stop

\* The task queue under submissions of mixed priority: workers are registered,
\* tasks of every TaskPriority used by the callers are submitted, the
\* scheduling loop pops, assigns or pushes back, and handlers return.
QueuePriorities == {2, 4}

NextLBQueue ==
    \/ \E c \in WorkerConfigs : LB_register_worker(c[1], c[2], c[3])
    \/ \E tt \in TaskTypes, p \in QueuePriorities :
           Len(tasks) < MaxQueueTasks /\ LB_submit_task(tt, p, lb_now)
    \/ LB_process_queue
    \/ \E i \in 1..MaxQueueTasks : LB_execute_done(i, "return")
    \/ LB_start

\* The results of handlers: workers are registered and keep registered, tasks
\* are submitted and assigned, and their handlers return a value that is true
\* or false in a condition, raise, or run out of time.
NextLBInfo ==
    \/ \E c \in WorkerConfigs : LB_register_worker(c[1], c[2], c[3])
    \/ \E tt \in TaskTypes :
           Len(tasks) < MaxTasks /\ LB_submit_task(tt, 2, lb_now)
    \/ LB_process_queue
    \/ \E i \in 1..MaxTasks,
          o \in {"return", "return_falsy", "raise", "timeout"} :
           LB_execute_done(i, o)
    \/ LB_start

\* ===========================================================================
\* Failsafe Monitor
\* ===========================================================================
MaxPolls == 4
MaxQuietPolls == 95
max_events == 1000
MAX_SYNC_FAILURES == 5
MAX_COMMAND_FAILURES == 10
\* Time is counted in units of 10 seconds, the default FAILSAFE_CHECK_INTERVAL
TicksPerMinute == 6
TicksPerHour == 360

Components == <<"X", "Y">>
\* Time between the starts of two polls: the interval, or more than a minute
\* when health probes or restart actions are slow
Gaps == {1, 7}

\* A component name is [base, failure]: the string made of `failure` copies
\* of "failure_" followed by base ("X", "failure_X", "failure_failure_X", ...)
Name(base) == [base |-> base, failure |-> 0]

\* conditions_config, in dict order
conditions_config ==
    <<[condition |-> "sync_failure", threshold |-> MAX_SYNC_FAILURES,
       window_minutes |-> 10, level |-> "critical"],
      [condition |-> "heartbeat_failure", threshold |-> 3,
       window_minutes |-> 5, level |-> "critical"],
      [condition |-> "component_failure", threshold |-> 1,
       window_minutes |-> 1, level |-> "warning"],
      [condition |-> "command_failure", threshold |-> MAX_COMMAND_FAILURES,
       window_minutes |-> 15, level |-> "warning"]>>

AllConditions ==
    {"sync_failure", "heartbeat_failure", "component_failure",
     "resource_exhaustion", "command_failure", "network_failure", "custom"}

FailsafeAction(action_id, conditions, level) ==
    [action_id |-> action_id, conditions |-> conditions, level |-> level,
     enabled |-> TRUE, execution_count |-> 0, raises |-> FALSE]

\* _initialize_default_actions
DefaultActions ==
    <<FailsafeAction("restart_component", {"component_failure"}, "warning"),
      FailsafeAction("system_halt", {"sync_failure", "heartbeat_failure"},
                     "emergency"),
      FailsafeAction("send_alert", AllConditions, "info"),
      FailsafeAction("log_event", AllConditions, "info")>>

\* The test of _execute_actions without the comparison of levels
ActionApplies_anylevel(action, event) ==
    /\ action.enabled
    /\ event.condition \in action.conditions

\* The test of _execute_actions: does the action run for the event
ActionApplies(action, event) ==
    /\ action.enabled
    /\ event.condition \in action.conditions
    /\ ~(event.level # action.level /\ action.level # "info")

\* The position of the first action whose handler raises, 0 if there is none
RECURSIVE FirstRaising(_, _)
FirstRaising(matching, i) ==
    IF i > Len(matching) THEN 0
    ELSE IF matching[i].raises THEN i
    ELSE FirstRaising(matching, i + 1)

\* The actions attempted if an exception of a handler ended the loop
AttemptedActions_stopatfailure(matching) ==
    IF FirstRaising(matching, 1) = 0 THEN matching
    ELSE SubSeq(matching, 1, FirstRaising(matching, 1))

\* The actions whose handler is called, of the matching ones in the order of
\* self.actions: the try/except is inside the loop, which goes on after a
\* handler that raises
AttemptedActions(matching) == matching

\* _execute_actions on the monitor state st for the event last appended; an
\* action whose handler raises is recorded with its error and its
\* execution_count is left as it was
_execute_actions(st, event) ==
    LET ran == AttemptedActions(
                  SelectSeq(st.actions, LAMBDA a : ActionApplies(a, event)))
        taken == [i \in 1..Len(ran) |->
                     [action_id |-> ran[i].action_id, error |-> ran[i].raises]]
        executed == {ran[i].action_id : i \in {j \in 1..Len(ran) : ~ran[j].raises}}
    IN [st EXCEPT
          !.actions = [i \in 1..Len(st.actions) |->
                          IF st.actions[i].action_id \in executed
                          THEN [st.actions[i] EXCEPT !.execution_count = @ + 1]
                          ELSE st.actions[i]],
          !.halt = @ \/ "system_halt" \in executed,
          !.events = [@ EXCEPT ![Len(@)].actions_taken = taken]]

\* trigger_event on the monitor state st = [events, counters, actions, halt];
\* has_metadata tells a synthetic threshold-breach event from a direct one
trigger_event(st, condition, level, component, has_metadata, now) ==
    LET event == [condition |-> condition, level |-> level,
                  component |-> component, threshold |-> has_metadata,
                  timestamp |-> now, actions_taken |-> <<>>]
        counter_key == <<condition, component>>
        old == IF ODHas(st.counters, counter_key)
               THEN ODGet(st.counters, counter_key) ELSE <<>>
        kept == SelectSeq(Append(old, now), LAMBDA ts : ts > now - TicksPerHour)
    IN _execute_actions(
          [st EXCEPT !.events = LastN(Append(@, event), max_events),
                     !.counters = ODPut(@, counter_key, kept)],
          event)

\* counter_key.split('_', 1)[1]: the key is "<condition>_<component>" and the
\* value of each configured condition contains an underscore itself, so the
\* split yields "failure_<component>"
SplitComponent(counter_key) ==
    [counter_key[2] EXCEPT !.failure = @ + 1]

\* The inner loop of _check_condition_thresholds over event_counters.items(),
\* from position k.  A key added by trigger_event while the dict is being
\* iterated makes the next step of the iteration raise RuntimeError.
RECURSIVE ThresholdKeys(_, _, _, _)
ThresholdKeys(st, cfg, k, now) ==
    IF k > Len(st.counters) THEN st
    ELSE LET counter_key == st.counters[k][1]
             timestamps == st.counters[k][2]
             cutoff_time == now - cfg.window_minutes * TicksPerMinute
             recent_events == SelectSeq(timestamps, LAMBDA ts : ts > cutoff_time)
         IN IF counter_key[1] # cfg.condition THEN ThresholdKeys(st, cfg, k + 1, now)
            ELSE IF Len(recent_events) >= cfg.threshold
            THEN LET st2 == trigger_event(st, cfg.condition, cfg.level,
                                          SplitComponent(counter_key), TRUE, now)
                 IN IF Len(st2.counters) # Len(st.counters)
                    THEN [st2 EXCEPT !.error = TRUE]
                    ELSE ThresholdKeys(st2, cfg, k + 1, now)
            ELSE ThresholdKeys(st, cfg, k + 1, now)

\* _check_condition_thresholds, from the c-th entry of conditions_config
RECURSIVE _check_condition_thresholds(_, _, _)
_check_condition_thresholds(st, c, now) ==
    IF c > Len(conditions_config) \/ st.error THEN st
    ELSE _check_condition_thresholds(
             ThresholdKeys(st, conditions_config[c], 1, now), c + 1, now)

HealthEventLevel_everyfailure(failures) ==
    IF failures >= 3 THEN "critical"
    ELSE IF failures >= 1 THEN "warning" ELSE "none"

HealthEventLevel_once(failures) ==
    IF failures = 1 THEN "warning"
    ELSE IF failures = 3 THEN "critical" ELSE "none"

\* The level of the event monitor_system_health triggers for a component that
\* has now failed `failures` checks in a row ("none": no event)
HealthEventLevel(failures) ==
    IF failures = 1 THEN "warning"
    ELSE IF failures >= 3 THEN "critical" ELSE "none"

\* The loop of monitor_system_health over self.components, from position n;
\* is_healthy[name] is the result of check_component_health
RECURSIVE CheckComponents(_, _, _, _, _)
CheckComponents(st, hs, n, is_healthy, now) ==
    IF n > Len(fm_components) THEN [st |-> st, hs |-> hs]
    ELSE LET name == fm_components[n]
             failures == IF is_healthy[name] THEN 0
                         ELSE hs[name].consecutive_failures + 1
             hs2 == [hs EXCEPT ![name] =
                        [healthy |-> is_healthy[name], last_check |-> now,
                         consecutive_failures |-> failures]]
             level == HealthEventLevel(failures)
             st2 == IF level = "none" THEN st
                    ELSE trigger_event(st, "component_failure", level,
                                       Name(name), FALSE, now)
         IN CheckComponents(st2, hs2, n + 1, is_healthy, now)

InitFM ==
    /\ fm_running = FALSE
    /\ fm_components = <<>>
    /\ health_status = EmptyDict
    /\ fm_events = <<>>
    /\ event_counters = <<>>
    /\ fm_actions = DefaultActions
    /\ halt_requested = FALSE
    /\ fm_task = "none"
    /\ fm_clock = 0
    /\ fm_polls = 0

FM_register_components(components) ==
    /\ fm_components = <<>>
    /\ fm_components' = components
    /\ health_status' =
          [name \in {components[i] : i \in 1..Len(components)} |->
              [healthy |-> TRUE, last_check |-> fm_clock,
               consecutive_failures |-> 0]]
    /\ UNCHANGED <<fm_running, fm_events, event_counters, fm_actions,
                   halt_requested, fm_task, fm_clock, fm_polls>>
    /\ UNCHANGED notFM

FM_start ==
    /\ ~fm_running
    /\ fm_running' = TRUE
    /\ halt_requested' = FALSE
    /\ fm_task' = "run"
    /\ UNCHANGED <<fm_components, health_status, fm_events, event_counters,
                   fm_actions, fm_clock, fm_polls>>
    /\ UNCHANGED notFM

FM_stop ==
    /\ fm_running
    /\ fm_running' = FALSE
    /\ fm_task' = "none"
    /\ UNCHANGED <<fm_components, health_status, fm_events, event_counters,
                   fm_actions, halt_requested, fm_clock, fm_polls>>
    /\ UNCHANGED notFM

\* One pass of the loop of monitor_system_health, gap time units after the
\* previous one: every component is probed, then the thresholds are checked.
\* A RuntimeError of the threshold check is caught by the loop, which sleeps
\* and goes on.
FM_poll(is_healthy, gap) ==
    /\ fm_task = "run"
    /\ fm_polls < MaxQuietPolls
    /\ fm_polls' = fm_polls + 1
    /\ fm_clock' = fm_clock + gap
    /\ LET now == fm_clock + gap
           st0 == [events |-> fm_events, counters |-> event_counters,
                   actions |-> fm_actions, halt |-> halt_requested,
                   error |-> FALSE]
           checked == CheckComponents(st0, health_status, 1, is_healthy, now)
           st == _check_condition_thresholds(checked.st, 1, now)
       IN /\ health_status' = checked.hs
          /\ fm_events' = st.events
          /\ event_counters' = st.counters
          /\ fm_actions' = st.actions
          /\ halt_requested' = st.halt
    /\ UNCHANGED <<fm_running, fm_components, fm_task>>
    /\ UNCHANGED notFM

ComponentSet == {Components[i] : i \in 1..Len(Components)}

NextFM ==
    \/ FM_register_components(Components)
    \/ FM_start
    \/ FM_stop
    \/ \E is_healthy \in [ComponentSet -> BOOLEAN], gap \in Gaps :
           fm_polls < MaxPolls /\ FM_poll(is_healthy, gap)

\* Health checks that fail in one pass at most and succeed in every later one:
\* the first pass probes the components with any result, each later pass,
\* FAILSAFE_CHECK_INTERVAL after the one before, finds every component healthy,
\* and nobody calls trigger_event.
AllHealthy == [name \in ComponentSet |-> TRUE]

NextFMQuiet ==
    \/ FM_register_components(Components)
    \/ FM_start
    \/ /\ fm_polls = 0
       /\ \E is_healthy \in [ComponentSet -> BOOLEAN] : FM_poll(is_healthy, 1)
    \/ fm_polls > 0 /\ FM_poll(AllHealthy, 1)

\* Actions registered by the application and events triggered by other
\* components, next to the health polls
MaxDirectEvents == 3
MaxActionPolls == 2

\* The FailsafeAction objects handed to register_action; the second one has had
\* its enabled attribute cleared by its owner
\* and the handler of the third raises an exception whenever it is called
CustomActions ==
    {FailsafeAction("sync_only", {"sync_failure"}, "warning"),
     [FailsafeAction("standby", AllConditions, "info") EXCEPT !.enabled = FALSE],
     [FailsafeAction("faulty", {"sync_failure"}, "info") EXCEPT !.raises = TRUE]}

HasAction(actions, action_id) ==
    \E n \in 1..Len(actions) : actions[n].action_id = action_id

\* register_action: self.actions[action.action_id] = action
FM_register_action(action) ==
    /\ fm_actions' =
          IF HasAction(fm_actions, action.action_id)
          THEN [n \in 1..Len(fm_actions) |->
                   IF fm_actions[n].action_id = action.action_id
                   THEN action ELSE fm_actions[n]]
          ELSE Append(fm_actions, action)
    /\ UNCHANGED <<fm_running, fm_components, health_status, fm_events,
                   event_counters, halt_requested, fm_task, fm_clock, fm_polls>>
    /\ UNCHANGED notFM

\* The number of timestamps the counters hold
RECURSIVE EventsCounted(_)
EventsCounted(counters) ==
    IF counters = <<>> THEN 0
    ELSE Len(counters[1][2]) + EventsCounted(Tail(counters))

\* trigger_event called from outside the monitor
FM_trigger_event(condition, level, component) ==
    /\ EventsCounted(event_counters) < MaxCapRecords
    /\ LET st == trigger_event([events |-> fm_events,
                                counters |-> event_counters,
                                actions |-> fm_actions,
                                halt |-> halt_requested, error |-> FALSE],
                               condition, level, Name(component), FALSE,
                               fm_clock)
       IN /\ fm_events' = st.events
          /\ event_counters' = st.counters
          /\ fm_actions' = st.actions
          /\ halt_requested' = st.halt
    /\ UNCHANGED <<fm_running, fm_components, health_status, fm_task,
                   fm_clock, fm_polls>>
    /\ UNCHANGED notFM

NextFMActions ==
    \/ FM_register_components(Components)
    \/ FM_start
    \/ FM_stop
    \/ \E is_healthy \in [ComponentSet -> BOOLEAN] :
           fm_polls < MaxActionPolls /\ FM_poll(is_healthy, 1)
    \/ \E action \in CustomActions :
           ~HasAction(fm_actions, action.action_id) /\ FM_register_action(action)
    \/ \E condition \in {"sync_failure", "component_failure"},
          level \in {"warning", "emergency"} :
           /\ Len(fm_events) < MaxDirectEvents
           /\ FM_trigger_event(condition, level, "system")

\* The histories up to their caps.  The three components share no state, so
\* their runs are taken one after the other: the monitor is sent events of
\* two conditions in turn; then the router, started without handlers, takes
\* commands one at a time; then the balancer, with one worker, takes tasks
\* one at a time.
MonitorDone == EventsCounted(event_counters) = MaxCapRecords
RouterDone == Len(commands) = MaxCapRecords /\ command_queue = <<>>

NextCaps ==
    \/ FM_trigger_event(IF EventsCounted(event_counters) % 2 = 0
                        THEN "sync_failure" ELSE "component_failure",
                        "warning", "system")
    \/ MonitorDone /\ CR_start
    \/ /\ MonitorDone /\ cr_running /\ command_queue = <<>>
       /\ CR_queue_command("status", "system")
    \/ MonitorDone /\ CR_process_get(FALSE, FALSE)
    \/ RouterDone /\ workers = <<>> /\ LB_register_worker("w1", 1, {"*"})
    \/ RouterDone /\ workers # <<>> /\ LB_start
    \/ /\ RouterDone /\ lb_running /\ Len(lb_active_tasks) = 0
       /\ LB_submit_task("a", 2, lb_now)
    \/ RouterDone /\ LB_process_queue
    \/ RouterDone /\ LB_execute_done(Len(tasks), "return")

\* ===========================================================================
\* Buffer System
\* ===========================================================================
MaxAdds == 3
MaxAttempts == 4
MaxFileOps == 2
MaxBsNow == 7
MaxDispatchNow == 8
max_buffer_size == 3
max_retries == 3
\* Microsecond ticks per millisecond (entry ids have millisecond resolution)
TicksPerMs == 2

\* The (buffer_type, data, priority, ttl_seconds) of the add_entry calls made;
\* ttl_seconds 0 and None both mean no expiry
EntryKinds == {<<"command", "dict", 1, 0>>, <<"event", "dict", 0, 2>>}
NoFile == [exists |-> FALSE]

\* The data of an entry is "dict" (made of JSON values only), "tuple" (it
\* holds a value JSON writes as something else: a tuple, a non-string key),
\* "list" (what JSON reads back for "tuple") or "datetime" (it holds a value
\* json.dump cannot serialise)
BufferEntry(buffer_type, data, priority, expires_at, now) ==
    [entry_id |-> now \div TicksPerMs, buffer_type |-> buffer_type,
     data |-> data, priority |-> priority, created_at |-> now, expires_at |-> expires_at,
     retry_count |-> 0, max_retries |-> max_retries, processed |-> FALSE]

\* BufferEntry.is_expired; expires_at = 0 stands for None
is_expired(entry, now) ==
    entry.expires_at # 0 /\ now > entry.expires_at

\* BufferEntry.to_dict, and BufferEntry.from_dict applied to its result
entry_to_dict(entry) ==
    [entry_id |-> entry.entry_id, buffer_type |-> entry.buffer_type,
     data |-> entry.data, priority |-> entry.priority, created_at |-> entry.created_at,
     expires_at |-> entry.expires_at, retry_count |-> entry.retry_count,
     max_retries |-> entry.max_retries, processed |-> entry.processed]

from_dict(data) ==
    [entry_id |-> data.entry_id, buffer_type |-> data.buffer_type,
     data |-> data.data, priority |-> data.priority, created_at |-> data.created_at,
     expires_at |-> data.expires_at, retry_count |-> data.retry_count,
     max_retries |-> data.max_retries, processed |-> data.processed]

\* key=lambda x: (-x.priority, x.created_at)
AddOrder(a, b) ==
    \/ a.priority > b.priority
    \/ (a.priority = b.priority /\ a.created_at < b.created_at)

\* The order of the eviction pass if it put the older entry first
CleanupOrder_oldestfirst(a, b) ==
    \/ a.priority > b.priority
    \/ (a.priority = b.priority /\ a.created_at < b.created_at)

\* key=lambda x: (-x.priority, -x.created_at.timestamp())
CleanupOrder(a, b) ==
    \/ a.priority > b.priority
    \/ (a.priority = b.priority /\ a.created_at > b.created_at)

\* _cleanup_buffer: the list it leaves in buffer_entries
_cleanup_buffer(entries, now) ==
    LET kept == SelectSeq(entries,
                          LAMBDA e : ~e.processed /\ ~is_expired(e, now))
        keep == (8 * max_buffer_size) \div 10
    IN IF 10 * Len(kept) >= 9 * max_buffer_size
       THEN LET sorted == StableSort(kept, CleanupOrder)
            IN SubSeq(sorted, 1, IF keep < Len(sorted) THEN keep ELSE Len(sorted))
       ELSE kept

BufferIsFull_offbyone(entries) == Len(entries) > max_buffer_size

\* len(self.buffer_entries) >= self.max_buffer_size, the test of add_entry
BufferIsFull(entries) == Len(entries) >= max_buffer_size

\* A snapshot left by a run with a larger BUFFER_MAX_SIZE
OldSnapshot ==
    [exists |-> TRUE, complete |-> TRUE,
     entries |-> [i \in 1..(max_buffer_size + 1) |->
                     entry_to_dict(BufferEntry("event", "dict", 0, 0, i))],
     metrics |-> [entries_added |-> max_buffer_size + 1,
                  entries_processed |-> 0, entries_failed |-> 0,
                  entries_expired |-> 0, buffer_flushes |-> 0,
                  file_saves |-> 1, file_loads |-> 0]]

InitBS ==
    /\ bs_running = FALSE
    /\ buffer_entries = <<>>
    /\ command_router = FALSE
    /\ processing_enabled = TRUE
    /\ bs_metrics = [entries_added |-> 0, entries_processed |-> 0,
                     entries_failed |-> 0, entries_expired |-> 0,
                     buffer_flushes |-> 0, file_saves |-> 0, file_loads |-> 0]
    /\ bs_file = NoFile
    /\ bs_now = max_buffer_size + 2
    /\ bs_added = 0
    /\ bs_fileops = 0
    /\ bs_last = [op |-> "init", ok |-> TRUE, at |-> 0, cleaned |-> 0]
    /\ bs_tmp = NoFile
    /\ bs_save = "idle"
    /\ bs_saved = {}

\* The buffer file the first start() finds may be one an earlier run left
BS_old_snapshot ==
    /\ bs_last.op = "init"
    /\ bs_file = NoFile
    /\ bs_file' = OldSnapshot
    /\ bs_saved' = bs_saved \cup {OldSnapshot}
    /\ UNCHANGED <<bs_tmp, bs_save>>
    /\ bs_last' = [op |-> "old_snapshot", ok |-> TRUE, at |-> 0, cleaned |-> 0]
    /\ UNCHANGED <<bs_running, buffer_entries, command_router,
                   processing_enabled, bs_metrics, bs_now, bs_added,
                   bs_fileops>>
    /\ UNCHANGED notBS

BS_set_command_router ==
    /\ ~command_router
    /\ command_router' = TRUE
    /\ bs_last' = [op |-> "set_command_router", ok |-> TRUE, at |-> 0,
                   cleaned |-> 0]
    /\ UNCHANGED <<bs_running, buffer_entries, processing_enabled, bs_metrics,
                   bs_file, bs_now, bs_added, bs_fileops>>
    /\ UNCHANGED snVars
    /\ UNCHANGED notBS

\* Time passes
BS_tick ==
    /\ bs_now < MaxDispatchNow
    /\ bs_now' = bs_now + 1
    /\ UNCHANGED <<bs_running, buffer_entries, command_router,
                   processing_enabled, bs_metrics, bs_file, bs_added,
                   bs_fileops, bs_last>>
    /\ UNCHANGED snVars
    /\ UNCHANGED notBS

\* add_entry; datetime.now() moves on between two calls
BS_add_entry(buffer_type, data, priority, ttl_seconds) ==
    /\ bs_save = "idle"
    /\ bs_added < MaxAdds
    /\ bs_now < MaxDispatchNow
    /\ bs_added' = bs_added + 1
    /\ bs_now' = bs_now + 1
    /\ LET now == bs_now + 1
           cleaned == IF BufferIsFull(buffer_entries)
                      THEN _cleanup_buffer(buffer_entries, now)
                      ELSE buffer_entries
           full == BufferIsFull(buffer_entries) /\ BufferIsFull(cleaned)
           expires_at == IF ttl_seconds # 0 THEN now + ttl_seconds ELSE 0
           entry == BufferEntry(buffer_type, data, priority, expires_at, now)
       IN IF full
          THEN \* raise Exception("Buffer is full")
               /\ buffer_entries' = cleaned
               /\ bs_metrics' = bs_metrics
               /\ bs_last' = [op |-> "add_entry", ok |-> FALSE, at |-> now,
                              cleaned |-> Len(buffer_entries) - Len(cleaned)]
          ELSE /\ buffer_entries' = StableSort(Append(cleaned, entry), AddOrder)
               /\ bs_metrics' = [bs_metrics EXCEPT !.entries_added = @ + 1]
               /\ bs_last' = [op |-> "add_entry", ok |-> TRUE, at |-> now,
                              cleaned |-> Len(buffer_entries) - Len(cleaned)]
    /\ UNCHANGED <<bs_running, command_router, processing_enabled, bs_file,
                   bs_fileops>>
    /\ UNCHANGED snVars
    /\ UNCHANGED notBS

\* The index process_buffer picks: the first entry that is neither processed
\* nor expired (0 when there is none)
EntryToProcess(entries, now) ==
    LET ready == {i \in 1..Len(entries) :
                     ~entries[i].processed /\ ~is_expired(entries[i], now)}
    IN IF ready = {} THEN 0 ELSE CHOOSE i \in ready : \A j \in ready : i <= j

\* process_entry on an unexpired entry whose processor reported `success`
process_entry(entry, success) ==
    IF success THEN [entry EXCEPT !.processed = TRUE]
    ELSE [entry EXCEPT !.retry_count = @ + 1]

\* _process_command: without a command router the entry cannot be processed;
\* queue_command of the router may raise
ProcessorResults(entry) ==
    IF entry.buffer_type = "command"
    THEN IF command_router THEN BOOLEAN ELSE {FALSE}
    ELSE {TRUE}

\* One pass of the loop of process_buffer
BS_process(success) ==
    /\ bs_running
    /\ processing_enabled
    /\ buffer_entries # <<>>
    /\ LET i == EntryToProcess(buffer_entries, bs_now)
       IN IF i = 0
          THEN /\ bs_last' = [op |-> "idle", ok |-> TRUE, at |-> 0,
                              cleaned |-> 0]
               /\ UNCHANGED <<buffer_entries, bs_metrics>>
          ELSE LET entry == process_entry(buffer_entries[i], success)
               IN /\ success \in ProcessorResults(buffer_entries[i])
                  /\ buffer_entries[i].retry_count < MaxAttempts
                  /\ buffer_entries' = [buffer_entries EXCEPT ![i] = entry]
                  /\ bs_metrics' =
                        IF success
                        THEN [bs_metrics EXCEPT !.entries_processed = @ + 1]
                        ELSE IF entry.retry_count >= entry.max_retries
                        THEN [bs_metrics EXCEPT !.entries_failed = @ + 1]
                        ELSE bs_metrics
                  /\ bs_last' = [op |-> "process_entry", ok |-> success,
                                 at |-> entry.created_at, cleaned |-> 0]
    /\ UNCHANGED <<bs_running, command_router, processing_enabled, bs_file,
                   bs_now, bs_added, bs_fileops>>
    /\ UNCHANGED snVars
    /\ UNCHANGED notBS

\* A further pass of the loop on an entry that has already failed MaxAttempts
\* times and fails again: in the code retry_count and entries_failed go on
\* growing; the model keeps them at the bound, nothing else depends on them.
BS_process_again ==
    /\ bs_running
    /\ processing_enabled
    /\ buffer_entries # <<>>
    /\ LET i == EntryToProcess(buffer_entries, bs_now)
       IN /\ i # 0
          /\ FALSE \in ProcessorResults(buffer_entries[i])
          /\ buffer_entries[i].retry_count = MaxAttempts
          /\ bs_last' = [op |-> "process_entry", ok |-> FALSE,
                         at |-> buffer_entries[i].created_at, cleaned |-> 0]
    /\ UNCHANGED <<bs_running, buffer_entries, command_router,
                   processing_enabled, bs_metrics, bs_file, bs_now, bs_added,
                   bs_fileops>>
    /\ UNCHANGED snVars
    /\ UNCHANGED notBS

\* The pause of process_buffer between two passes
BS_sleep ==
    /\ bs_running
    /\ bs_last.op = "process_entry"
    /\ bs_last' = [op |-> "sleep", ok |-> TRUE, at |-> 0, cleaned |-> 0]
    /\ UNCHANGED <<bs_running, buffer_entries, command_router,
                   processing_enabled, bs_metrics, bs_file, bs_now, bs_added,
                   bs_fileops>>
    /\ UNCHANGED snVars
    /\ UNCHANGED notBS

\* One pass of cleanup_loop
BS_cleanup ==
    /\ bs_running
    /\ buffer_entries' = _cleanup_buffer(buffer_entries, bs_now)
    /\ bs_last' = [op |-> "cleanup", ok |-> TRUE, at |-> 0,
                   cleaned |-> Len(buffer_entries) - Len(buffer_entries')]
    /\ UNCHANGED <<bs_running, command_router, processing_enabled, bs_metrics,
                   bs_file, bs_now, bs_added, bs_fileops>>
    /\ UNCHANGED snVars
    /\ UNCHANGED notBS

\* json.dump can serialise the data
Serialisable(data) == data # "datetime"

\* What json.load reads back for data that json.dump wrote
JsonImage(data) == IF data = "tuple" THEN "list" ELSE data

\* A file that holds the beginning of a JSON document, or nothing yet
PartialFile == [exists |-> TRUE, complete |-> FALSE]

\* The content save_to_file sets out to write for these entries and metrics
Snapshot(entries, metrics) ==
    [exists |-> TRUE, complete |-> TRUE,
     entries |-> [i \in 1..Len(entries) |->
                     [entry_to_dict(entries[i]) EXCEPT !.data = JsonImage(@)]],
     metrics |-> metrics]

CanDump(entries) ==
    \A i \in 1..Len(entries) : Serialisable(entries[i].data)

\* save_to_file run to its end: the buffer file, the temporary file and the
\* metrics it leaves.  A failure of json.dump is caught and logged.
save_to_file(entries, metrics, file) ==
    IF CanDump(entries)
    THEN [file |-> Snapshot(entries, metrics), tmp |-> NoFile, ok |-> TRUE,
          metrics |-> [metrics EXCEPT !.file_saves = @ + 1]]
    ELSE [file |-> file, tmp |-> PartialFile, ok |-> FALSE,
          metrics |-> metrics]

\* The contents that saves have set out to write, this one included
Saved(entries, metrics) ==
    IF CanDump(entries) THEN bs_saved \cup {Snapshot(entries, metrics)}
    ELSE bs_saved

\* load_from_file: the entries it restores
Restored(file, now) ==
    SelectSeq([i \in 1..Len(file.entries) |-> from_dict(file.entries[i])],
              LAMBDA e : ~is_expired(e, now))

\* load_from_file: the entries and metrics it leaves.  Without a file it
\* returns at once; a file json.load cannot parse makes it log an error.
load_from_file(file, entries, metrics, now) ==
    IF file.exists /\ file.complete
    THEN [entries |-> Restored(file, now), ok |-> TRUE,
          metrics |-> [k \in DOMAIN metrics |->
                          IF k = "file_loads" THEN file.metrics[k] + 1
                          ELSE file.metrics[k]]]
    ELSE [entries |-> entries, metrics |-> metrics, ok |-> ~file.exists]

\* flush_buffer, one pass of flush_loop: save_to_file, then _cleanup_buffer
BS_flush ==
    /\ bs_running
    /\ bs_save = "idle"
    /\ bs_fileops < MaxFileOps
    /\ bs_fileops' = bs_fileops + 1
    /\ LET saved == save_to_file(buffer_entries, bs_metrics, bs_file)
       IN /\ bs_file' = saved.file
          /\ bs_tmp' = saved.tmp
          /\ bs_metrics' = [saved.metrics EXCEPT !.buffer_flushes = @ + 1]
    /\ bs_saved' = Saved(buffer_entries, bs_metrics)
    /\ buffer_entries' = _cleanup_buffer(buffer_entries, bs_now)
    /\ bs_last' = [op |-> "flush", ok |-> TRUE, at |-> 0,
                   cleaned |-> Len(buffer_entries) - Len(buffer_entries')]
    /\ UNCHANGED <<bs_running, command_router, processing_enabled, bs_now,
                   bs_added, bs_save>>
    /\ UNCHANGED notBS

\* start: load_from_file, then the three loops are created
BS_start ==
    /\ ~bs_running
    /\ bs_save = "idle"
    /\ bs_fileops < MaxFileOps
    /\ bs_fileops' = bs_fileops + 1
    /\ bs_running' = TRUE
    /\ LET loaded == load_from_file(bs_file, buffer_entries, bs_metrics, bs_now)
       IN /\ buffer_entries' = loaded.entries
          /\ bs_metrics' = loaded.metrics
    /\ bs_last' = [op |-> "start", ok |-> TRUE, at |-> 0, cleaned |-> 0]
    /\ UNCHANGED <<command_router, processing_enabled, bs_file, bs_now,
                   bs_added>>
    /\ UNCHANGED snVars
    /\ UNCHANGED notBS

\* stop: the loops are cancelled, then save_to_file
BS_stop ==
    /\ bs_running
    /\ bs_save = "idle"
    /\ bs_fileops < MaxFileOps
    /\ bs_fileops' = bs_fileops + 1
    /\ bs_running' = FALSE
    /\ LET saved == save_to_file(buffer_entries, bs_metrics, bs_file)
       IN /\ bs_file' = saved.file
          /\ bs_tmp' = saved.tmp
          /\ bs_metrics' = saved.metrics
    /\ bs_saved' = Saved(buffer_entries, bs_metrics)
    /\ bs_last' = [op |-> "stop", ok |-> TRUE, at |-> 0, cleaned |-> 0]
    /\ UNCHANGED <<buffer_entries, command_router, processing_enabled, bs_now,
                   bs_added, bs_save>>
    /\ UNCHANGED notBS

BS_set_processing(enabled) ==
    /\ processing_enabled # enabled
    /\ processing_enabled' = enabled
    /\ bs_last' = [op |-> "set_processing", ok |-> TRUE, at |-> 0,
                   cleaned |-> 0]
    /\ UNCHANGED <<bs_running, buffer_entries, command_router, bs_metrics,
                   bs_file, bs_now, bs_added, bs_fileops>>
    /\ UNCHANGED snVars
    /\ UNCHANGED notBS

NextBS ==
    \/ BS_old_snapshot
    \/ BS_set_command_router
    \/ bs_now < MaxBsNow /\ BS_tick
    \/ \E kind \in EntryKinds :
           bs_now < MaxBsNow /\ BS_add_entry(kind[1], kind[2], kind[3], kind[4])
    \/ \E success \in BOOLEAN : BS_process(success)
    \/ BS_cleanup
    \/ BS_flush
    \/ BS_start
    \/ BS_stop
    \/ \E enabled \in BOOLEAN : BS_set_processing(enabled)

\* The processing loop next to the callers of add_entry and the cleanup loop:
\* entries of one priority or two, one kind of them with a time to live, are
\* added until the buffer is full; no command router is set, so that the processor of a
\* command entry fails on every attempt and the processor of an event entry
\* succeeds.
DispatchKinds ==
    {<<"command", "dict", 1, 0>>, <<"event", "dict", 1, 0>>,
     <<"event", "dict", 0, 0>>, <<"event", "dict", 0, 1>>}

NextBSDispatch ==
    \/ \E kind \in DispatchKinds :
           BS_add_entry(kind[1], kind[2], kind[3], kind[4])
    \/ \E success \in BOOLEAN : BS_process(success)
    \/ BS_cleanup
    \/ BS_start

\* The same with the loop seen pass by pass: a pass, the pause after it, the
\* next pass, also on an entry that keeps failing
NextBSLoop ==
    \/ NextBSDispatch
    \/ BS_process_again
    \/ BS_sleep

\* ===========================================================================
\* Toggle Dispatcher: one Toggle and the change_state calls made on it
\* ===========================================================================
MaxCalls == 3
MaxValidators == 2
MaxCallbacks == 1
MaxListCallbacks == 2
toggle_max_history == 100

ToggleStates == {"on", "off"}
Verdicts == {"accept", "reject", "raise"}
CallbackKinds == {"state_change", "on", "off"}

\* Toggle.__init__; the dispatcher creates its toggles in state ON
Toggle(initial_state) ==
    [state |-> initial_state, previous_state |-> "none", last_changed |-> 0,
     change_count |-> 0, state_history |-> <<>>, validators |-> <<>>,
     state_change_callbacks |-> <<>>, on_callbacks |-> <<>>,
     off_callbacks |-> <<>>]

\* The fields of the toggle a caller can observe, and the callbacks invoked
Observed(tg, fired) ==
    [state |-> tg.state, previous_state |-> tg.previous_state,
     last_changed |-> tg.last_changed, change_count |-> tg.change_count,
     state_history |-> tg.state_history, fired |-> Len(fired)]

NoChangeNeeded_never(new_state, state) == FALSE

\* if new_state == self.state: return True
NoChangeNeeded(new_state, state) == new_state = state

ValidatorRejects_never(verdict) == FALSE

\* if not valid: return False, and the except branch of the validator loop
ValidatorRejects(verdict) == verdict # "accept"

\* The callback list _execute_callbacks runs at a stage
CallbackList(tg, stage) ==
    IF stage = "state_change" THEN tg.state_change_callbacks
    ELSE IF stage = "on" THEN tg.on_callbacks
    ELSE IF stage = "off" THEN tg.off_callbacks
    ELSE <<>>

\* A machine state m = [tg, fr, fired, now] is the toggle, the frame of the
\* running change_state call and the callback log.  The call returns:
Return(m, result) ==
    [m EXCEPT !.fr.pc = "returned", !.fr.result = result,
              !.fr.after = Observed(m.tg, m.fired)]

\* _execute_callbacks from callback k of a stage, up to the next await of an
\* asynchronous callback or the end
RECURSIVE _execute_callbacks_from(_, _, _)
_execute_callbacks_from(m, stage, k) ==
    LET callbacks == CallbackList(m.tg, stage)
    IN IF k > Len(callbacks)
       THEN IF stage = "state_change"
            THEN _execute_callbacks_from(m, m.fr.new_state, 1)
            ELSE Return(m, TRUE)
       ELSE LET m2 == [m EXCEPT !.fired =
                          Append(@, [call |-> m.fr.id, kind |-> stage,
                                     index |-> k,
                                     from_state |-> m.fr.from_state,
                                     to_state |-> m.fr.new_state,
                                     seen_state |-> m.tg.state,
                                     seen_count |-> m.tg.change_count,
                                     raised |-> callbacks[k].raises])]
            IN IF callbacks[k].is_async
               THEN [m2 EXCEPT !.fr.pc = "callback", !.fr.stage = stage,
                               !.fr.k = k]
               ELSE _execute_callbacks_from(m2, stage, k + 1)

\* change_state after the validators: the state change and the callbacks
CommitChange(m) ==
    LET tg == m.tg
        history_entry == [from_state |-> tg.state,
                          to_state |-> m.fr.new_state,
                          change_count |-> tg.change_count]
        m2 == [m EXCEPT
                 !.tg.previous_state = tg.state,
                 !.tg.state_history =
                     LastN(Append(tg.state_history, history_entry),
                           toggle_max_history),
                 !.tg.state = m.fr.new_state,
                 !.tg.last_changed = m.now,
                 !.tg.change_count = @ + 1,
                 !.fr.committed = TRUE,
                 !.fr.from_state = tg.state]
    IN _execute_callbacks_from(m2, "state_change", 1)

\* The validator loop of change_state from validator v, where validator v has
\* just given `verdict` ("none": it is still to be called); sync_verdicts are
\* the verdicts of the synchronous validators called in this step
RECURSIVE RunValidators(_, _, _, _)
RunValidators(m, v, verdict, sync_verdicts) ==
    IF v > Len(m.tg.validators) THEN CommitChange(m)
    ELSE IF verdict = "none"
    THEN IF m.tg.validators[v].is_async
         THEN [m EXCEPT !.fr.pc = "validator", !.fr.v = v]
         ELSE RunValidators(m, v, sync_verdicts[v], sync_verdicts)
    ELSE LET m2 == [m EXCEPT !.fr.verdicts = Append(@, verdict)]
         IN IF ValidatorRejects(verdict)
            THEN Return(m2, FALSE)
            ELSE RunValidators(m2, v + 1, "none", sync_verdicts)

Pending(calls) == {c \in 1..Len(calls) : calls[c].pc # "returned"}

InitTD ==
    /\ toggle = Toggle("on")
    /\ td_calls = <<>>
    /\ td_fired = <<>>
    /\ td_clock = 0
    /\ td_metrics = [callback_errors |-> 0]

\* add_validator; validators and callbacks are registered when the toggle is
\* set up, before it is used
TD_add_validator(is_async) ==
    /\ td_calls = <<>>
    /\ Len(toggle.validators) < MaxValidators
    /\ toggle' = [toggle EXCEPT !.validators = Append(@, [is_async |-> is_async])]
    /\ UNCHANGED <<td_calls, td_fired, td_clock, td_metrics>>
    /\ UNCHANGED notTD

\* add_state_change_callback, add_on_callback, add_off_callback
\* (a callback is a function that returns, or one that raises, when called)
TD_add_callback(kind, is_async, raises) ==
    /\ td_calls = <<>>
    /\ Len(CallbackList(toggle, kind)) < MaxListCallbacks
    /\ LET callback == [is_async |-> is_async, raises |-> raises]
       IN toggle' =
             IF kind = "state_change"
             THEN [toggle EXCEPT !.state_change_callbacks = Append(@, callback)]
             ELSE IF kind = "on"
             THEN [toggle EXCEPT !.on_callbacks = Append(@, callback)]
             ELSE [toggle EXCEPT !.off_callbacks = Append(@, callback)]
    /\ UNCHANGED <<td_calls, td_fired, td_clock, td_metrics>>
    /\ UNCHANGED notTD

\* The step puts the machine state m in place of call c
Store(m, c, calls) ==
    /\ toggle' = m.tg
    /\ td_fired' = m.fired
    /\ td_calls' = [calls EXCEPT ![c] = m.fr]

\* A call of change_state, run up to its first await or its return
TD_change_state(new_state, sync_verdicts) ==
    /\ Len(td_calls) < MaxCalls
    /\ td_clock' = td_clock + 1
    /\ UNCHANGED td_metrics
    /\ LET c == Len(td_calls) + 1
           fr == [id |-> c, new_state |-> new_state, pc |-> "running",
                  v |-> 0, stage |-> "none", k |-> 0, verdicts |-> <<>>,
                  result |-> FALSE, committed |-> FALSE, reported |-> FALSE,
                  from_state |-> "none", alone |-> Pending(td_calls) = {},
                  before |-> Observed(toggle, td_fired),
                  after |-> Observed(toggle, td_fired)]
           m == [tg |-> toggle, fr |-> fr, fired |-> td_fired,
                 now |-> td_clock + 1]
           overlapped == [i \in 1..Len(td_calls) |->
                             IF td_calls[i].pc # "returned"
                             THEN [td_calls[i] EXCEPT !.alone = FALSE]
                             ELSE td_calls[i]]
       IN Store(IF NoChangeNeeded(new_state, toggle.state)
                THEN Return(m, TRUE)
                ELSE RunValidators(m, 1, "none", sync_verdicts),
                c, Append(overlapped, fr))
    /\ UNCHANGED notTD

\* An asynchronous validator returns its verdict to the call awaiting it
TD_validator_return(c, verdict, sync_verdicts) ==
    /\ c \in 1..Len(td_calls)
    /\ td_calls[c].pc = "validator"
    /\ LET m == [tg |-> toggle, fr |-> td_calls[c], fired |-> td_fired,
                 now |-> td_clock]
       IN Store(RunValidators(m, td_calls[c].v, verdict, sync_verdicts),
                c, td_calls)
    /\ UNCHANGED <<td_clock, td_metrics>>
    /\ UNCHANGED notTD

\* An asynchronous callback returns (or raises) to the call awaiting it
TD_callback_return(c) ==
    /\ c \in 1..Len(td_calls)
    /\ td_calls[c].pc = "callback"
    /\ LET m == [tg |-> toggle, fr |-> td_calls[c], fired |-> td_fired,
                 now |-> td_clock]
       IN Store(_execute_callbacks_from(m, td_calls[c].stage,
                                        td_calls[c].k + 1),
                c, td_calls)
    /\ UNCHANGED <<td_clock, td_metrics>>
    /\ UNCHANGED notTD

\* process_commands after execute_command: the callback given with a
\* toggle_on or toggle_off command is called with the result of call c, and
\* an exception of that callback is counted in metrics['callback_errors']
TD_command_callback(c, raises) ==
    /\ c \in 1..Len(td_calls)
    /\ td_calls[c].pc = "returned"
    /\ ~td_calls[c].reported
    /\ td_calls' = [td_calls EXCEPT ![c].reported = TRUE]
    /\ td_metrics' = IF raises
                     THEN [td_metrics EXCEPT !.callback_errors = @ + 1]
                     ELSE td_metrics
    /\ UNCHANGED <<toggle, td_fired, td_clock>>
    /\ UNCHANGED notTD

\* The verdicts the synchronous validators may give in one step
SyncVerdicts ==
    {f \in [1..MaxValidators -> Verdicts] :
        \A v \in 1..MaxValidators :
            (v > Len(toggle.validators) \/ toggle.validators[v].is_async)
               => f[v] = "accept"}

NextTD ==
    \/ \E is_async \in BOOLEAN : TD_add_validator(is_async)
    \/ \E kind \in CallbackKinds, is_async \in BOOLEAN :
           /\ Len(CallbackList(toggle, kind)) < MaxCallbacks
           /\ TD_add_callback(kind, is_async, FALSE)
    \/ \E new_state \in ToggleStates, sync_verdicts \in SyncVerdicts :
           TD_change_state(new_state, sync_verdicts)
    \/ \E c \in 1..MaxCalls, verdict \in Verdicts,
          sync_verdicts \in SyncVerdicts :
           TD_validator_return(c, verdict, sync_verdicts)
    \/ \E c \in 1..MaxCalls : TD_callback_return(c)

\* Callbacks that raise: up to MaxListCallbacks callbacks per list, each one
\* returning or raising, on a toggle without validators; the calls of
\* change_state come from commands whose own callback may raise too.
MaxCallbackCalls == 2
AllAccept == [v \in 1..MaxValidators |-> "accept"]

NextTDCallbacks ==
    \/ \E kind \in CallbackKinds, is_async \in BOOLEAN, raises \in BOOLEAN :
           TD_add_callback(kind, is_async, raises)
    \/ \E new_state \in ToggleStates :
           /\ Len(td_calls) < MaxCallbackCalls
           /\ TD_change_state(new_state, AllAccept)
    \/ \E c \in 1..MaxCallbackCalls : TD_callback_return(c)
    \/ \E c \in 1..MaxCallbackCalls, raises \in BOOLEAN :
           TD_command_callback(c, raises)

\* ===========================================================================
\* Sync Manager
\* ===========================================================================
MaxChecks == 6
MaxSmClock == 6
MaxLoopClock == 30
MaxCorrections == 2
SYNC_TOLERANCE == 5
sync_max_history == 100
\* Seconds by which the clock is seen to advance between two operations
TickSeconds == 3

\* The strings handed to validate_timestamp: the form of the text and, for a
\* well-formed one, the instant it names relative to the clock of the call.
\* "Z" ends in Z, "offset" ends in +00:00, "naive" carries no UTC offset,
\* "malformed" is not an ISO timestamp.
TimestampInputs ==
    {[form |-> "Z", offset |-> -10], [form |-> "offset", offset |-> 10],
     [form |-> "offset", offset |-> -5], [form |-> "Z", offset |-> 5],
     [form |-> "naive", offset |-> 0], [form |-> "malformed", offset |-> 0]}

\* datetime.fromisoformat after the replacement of a trailing Z by +00:00:
\* an aware datetime, a naive datetime, or ValueError
fromisoformat(ts, now) ==
    IF ts.form \in {"Z", "offset"}
    THEN [kind |-> "aware", time |-> now + ts.offset]
    ELSE IF ts.form = "naive" THEN [kind |-> "naive", time |-> now + ts.offset]
    ELSE [kind |-> "ValueError", time |-> 0]

Abs(x) == IF x < 0 THEN -x ELSE x

Max(x, y) == IF x > y THEN x ELSE y

\* drift <= self.sync_tolerance, with the bound left out
WithinTolerance_strict(drift) == drift < SYNC_TOLERANCE

\* drift <= self.sync_tolerance
WithinTolerance(drift) == drift <= SYNC_TOLERANCE

\* _add_sync_history
_add_sync_history(history, sync_event) ==
    LastN(Append(history, sync_event), sync_max_history)

\* validate_timestamp: the history and metrics it leaves and what it returns
\* (drift -1: the result has no drift).  Subtracting an aware datetime from a
\* naive one raises TypeError, which the except clause handles like a
\* timestamp that does not parse.  avg_drift and last_sync_check are written
\* and never read by the operations modelled; they are left out.
validate_timestamp(history, metrics, ts, now) ==
    LET received_time == fromisoformat(ts, now)
    IN IF received_time.kind = "aware"
       THEN LET drift == Abs(received_time.time - now)
                is_synchronized == WithinTolerance(drift)
                m1 == [metrics EXCEPT !.sync_checks = @ + 1,
                                      !.max_drift = Max(@, drift)]
                m2 == IF is_synchronized THEN m1
                      ELSE [m1 EXCEPT !.sync_failures = @ + 1]
            IN [history |-> _add_sync_history(history,
                               [timestamp |-> now, drift |-> drift,
                                synchronized |-> is_synchronized,
                                tolerance |-> SYNC_TOLERANCE]),
                metrics |-> m2,
                ret |-> [valid |-> TRUE, synchronized |-> is_synchronized,
                         drift |-> drift, tolerance |-> SYNC_TOLERANCE,
                         corrected_time |-> now,
                         sync_status |-> IF is_synchronized
                                         THEN "synchronized"
                                         ELSE "drift_detected"]]
       ELSE [history |-> history,
             metrics |-> [metrics EXCEPT !.sync_failures = @ + 1],
             ret |-> [valid |-> FALSE, synchronized |-> FALSE, drift |-> -1,
                      tolerance |-> -1, corrected_time |-> -1,
                      sync_status |-> "validation_error"]]

\* sum(1 for event in recent_events if event.get('synchronized', False))
RECURSIVE synchronized_count(_)
synchronized_count(events) ==
    IF events = <<>> THEN 0
    ELSE (IF Head(events).synchronized THEN 1 ELSE 0)
            + synchronized_count(Tail(events))

\* is_synchronized: synchronized_count >= len(recent_events) / 2, a float
\* division, compared here after doubling both sides
is_synchronized(history) ==
    IF history = <<>> THEN FALSE
    ELSE LET recent_events == LastN(history, 5)
         IN 2 * synchronized_count(recent_events) >= Len(recent_events)

\* perform_time_sync: reference_time, time_offset and metrics after the call
perform_time_sync(ref, offset, metrics, now) ==
    IF ref # -1
    THEN LET time_diff == now - ref
         IN IF Abs(time_diff) > SYNC_TOLERANCE
            THEN [ref |-> ref, offset |-> time_diff,
                  metrics |-> [metrics EXCEPT !.drift_corrections = @ + 1]]
            ELSE [ref |-> ref, offset |-> offset, metrics |-> metrics]
    ELSE [ref |-> now, offset |-> offset, metrics |-> metrics]

\* get_corrected_time: the local time less the recorded offset
get_corrected_time(offset, now) ==
    IF offset # 0 THEN now - offset ELSE now

InitSM ==
    /\ sm_running = FALSE
    /\ reference_time = -1
    /\ time_offset = 0
    /\ sync_history = <<>>
    /\ sm_metrics = [sync_checks |-> 0, sync_failures |-> 0,
                     drift_corrections |-> 0, max_drift |-> 0]
    /\ sm_task = "none"
    /\ sm_clock = 0
    /\ sm_result = [op |-> "none"]

SM_tick ==
    /\ sm_clock + TickSeconds <= MaxLoopClock
    /\ sm_clock' = sm_clock + TickSeconds
    /\ UNCHANGED <<sm_running, reference_time, time_offset, sync_history,
                   sm_metrics, sm_task, sm_result>>
    /\ UNCHANGED notSM

SM_validate_timestamp(ts) ==
    /\ Len(sync_history) < MaxChecks
    /\ sm_metrics.sync_failures < MaxChecks
    /\ LET v == validate_timestamp(sync_history, sm_metrics, ts, sm_clock)
       IN /\ sync_history' = v.history
          /\ sm_metrics' = v.metrics
          /\ sm_result' = [op |-> "validate_timestamp", ts |-> ts,
                           now |-> sm_clock, ret |-> v.ret]
    /\ UNCHANGED <<sm_running, reference_time, time_offset, sm_task, sm_clock>>
    /\ UNCHANGED notSM

SM_is_synchronized ==
    /\ sm_result' = [op |-> "is_synchronized",
                     ret |-> is_synchronized(sync_history)]
    /\ UNCHANGED <<sm_running, reference_time, time_offset, sync_history,
                   sm_metrics, sm_task, sm_clock>>
    /\ UNCHANGED notSM

\* One pass of sync_check_loop: perform_time_sync, then the sleep
SM_sync_check ==
    /\ sm_task = "run"
    /\ sm_metrics.drift_corrections < MaxCorrections
    /\ LET r == perform_time_sync(reference_time, time_offset, sm_metrics,
                                  sm_clock)
       IN /\ reference_time' = r.ref
          /\ time_offset' = r.offset
          /\ sm_metrics' = r.metrics
    /\ UNCHANGED <<sm_running, sync_history, sm_task, sm_clock, sm_result>>
    /\ UNCHANGED notSM

SM_get_corrected_time ==
    /\ sm_result' = [op |-> "get_corrected_time", now |-> sm_clock,
                     ret |-> get_corrected_time(time_offset, sm_clock)]
    /\ UNCHANGED <<sm_running, reference_time, time_offset, sync_history,
                   sm_metrics, sm_task, sm_clock>>
    /\ UNCHANGED notSM

SM_start ==
    /\ ~sm_running
    /\ sm_running' = TRUE
    /\ reference_time' = sm_clock
    /\ sm_task' = "run"
    /\ UNCHANGED <<time_offset, sync_history, sm_metrics, sm_clock, sm_result>>
    /\ UNCHANGED notSM

SM_stop ==
    /\ sm_running
    /\ sm_running' = FALSE
    /\ sm_task' = "none"
    /\ UNCHANGED <<reference_time, time_offset, sync_history, sm_metrics,
                   sm_clock, sm_result>>
    /\ UNCHANGED notSM

\* The calls made by clients of the Sync Manager
NextSM ==
    \/ sm_clock + TickSeconds <= MaxSmClock /\ SM_tick
    \/ \E ts \in TimestampInputs : SM_validate_timestamp(ts)
    \/ SM_is_synchronized

\* The periodic check
NextSMLoop ==
    \/ SM_tick
    \/ SM_sync_check
    \/ SM_get_corrected_time
    \/ SM_start
    \/ SM_stop

\* ---------------------------------------------------------------------------
\* Buffer System: save_to_file step by step, with the process stopping at any
\* step and a new process loading the file
\* ---------------------------------------------------------------------------
MaxSnapOps == 4

SnapshotKinds ==
    {<<"event", "dict", 1, 0>>, <<"event", "tuple", 0, 0>>,
     <<"event", "datetime", 0, 0>>, <<"event", "dict", 0, 2>>}

InitialMetrics ==
    [entries_added |-> 0, entries_processed |-> 0, entries_failed |-> 0,
     entries_expired |-> 0, buffer_flushes |-> 0, file_saves |-> 0,
     file_loads |-> 0]

OpenForWrite_inplace(file, tmp) == [file |-> PartialFile, tmp |-> tmp]

\* with open(temp_file, 'w'): the temporary file is created or truncated
OpenForWrite(file, tmp) == [file |-> file, tmp |-> PartialFile]

\* save_to_file up to the opening of the temporary file
SN_save_open ==
    /\ bs_save = "idle"
    /\ bs_fileops < MaxSnapOps
    /\ bs_fileops' = bs_fileops + 1
    /\ bs_save' = "opened"
    /\ bs_file' = OpenForWrite(bs_file, bs_tmp).file
    /\ bs_tmp' = OpenForWrite(bs_file, bs_tmp).tmp
    /\ bs_saved' = Saved(buffer_entries, bs_metrics)
    /\ UNCHANGED <<bs_running, buffer_entries, command_router,
                   processing_enabled, bs_metrics, bs_now, bs_added, bs_last>>
    /\ UNCHANGED notBS

\* json.dump writes the document and the file is closed, or json.dump raises
\* and save_to_file logs the error and returns
SN_save_write ==
    /\ bs_save = "opened"
    /\ IF CanDump(buffer_entries)
       THEN /\ bs_tmp' = Snapshot(buffer_entries, bs_metrics)
            /\ bs_save' = "written"
            /\ UNCHANGED bs_last
       ELSE /\ bs_save' = "idle"
            /\ bs_last' = [op |-> "save", ok |-> FALSE, at |-> 0, cleaned |-> 0]
            /\ UNCHANGED bs_tmp
    /\ UNCHANGED <<bs_running, buffer_entries, command_router,
                   processing_enabled, bs_metrics, bs_file, bs_now, bs_added,
                   bs_fileops, bs_saved>>
    /\ UNCHANGED notBS

\* temp_file.replace(self.buffer_file), and save_to_file returns
SN_save_replace ==
    /\ bs_save = "written"
    /\ bs_file' = bs_tmp
    /\ bs_tmp' = NoFile
    /\ bs_metrics' = [bs_metrics EXCEPT !.file_saves = @ + 1]
    /\ bs_save' = "idle"
    /\ bs_last' = [op |-> "save", ok |-> TRUE, at |-> 0, cleaned |-> 0]
    /\ UNCHANGED <<bs_running, buffer_entries, command_router,
                   processing_enabled, bs_now, bs_added, bs_fileops, bs_saved>>
    /\ UNCHANGED notBS

\* The process stops, and a new BufferSystem is constructed: what was in
\* memory is gone, the files stay as they are
SN_crash ==
    /\ bs_fileops < MaxSnapOps
    /\ bs_fileops' = bs_fileops + 1
    /\ bs_running' = FALSE
    /\ buffer_entries' = <<>>
    /\ command_router' = FALSE
    /\ processing_enabled' = TRUE
    /\ bs_metrics' = InitialMetrics
    /\ bs_save' = "idle"
    /\ bs_last' = [op |-> "crash", ok |-> TRUE, at |-> 0, cleaned |-> 0]
    /\ UNCHANGED <<bs_file, bs_tmp, bs_now, bs_added, bs_saved>>
    /\ UNCHANGED notBS

\* A call of load_from_file
SN_load ==
    /\ bs_save = "idle"
    /\ bs_fileops < MaxSnapOps
    /\ bs_fileops' = bs_fileops + 1
    /\ LET loaded == load_from_file(bs_file, buffer_entries, bs_metrics, bs_now)
       IN /\ buffer_entries' = loaded.entries
          /\ bs_metrics' = loaded.metrics
          /\ bs_last' = [op |-> "load", ok |-> loaded.ok, at |-> 0,
                         cleaned |-> 0]
    /\ UNCHANGED <<bs_running, command_router, processing_enabled, bs_file,
                   bs_now, bs_added>>
    /\ UNCHANGED snVars
    /\ UNCHANGED notBS

NextSnapshot ==
    \/ \E kind \in SnapshotKinds :
           bs_now < MaxBsNow /\ BS_add_entry(kind[1], kind[2], kind[3], kind[4])
    \/ bs_now < MaxBsNow /\ BS_tick
    \/ SN_save_open
    \/ SN_save_write
    \/ SN_save_replace
    \/ SN_crash
    \/ SN_load

\* ---------------------------------------------------------------------------
\* Load Balancer: properties
\* ---------------------------------------------------------------------------

\* C2: after every step each registered worker holds at most max_concurrent
\* tasks in its active set, and a step that assigns a task to a worker finds
\* that worker registered with fewer than max_concurrent active tasks.
C2_WorkerCapacity ==
    [][/\ \A i \in 1..Len(workers') :
             Len(workers'[i].active_tasks) <= workers'[i].max_concurrent
       /\ \A t \in 1..Len(tasks) :
             (tasks[t].exec = "none" /\ tasks'[t].exec = "running")
                => /\ HasWorker(workers, tasks'[t].worker_id)
                   /\ LET w == workers[WorkerPos(workers, tasks'[t].worker_id)]
                      IN Len(w.active_tasks) < w.max_concurrent]_vars

\* C2 witness: a worker is full while the scheduler runs with a task waiting
C2_Witness_FullWorkerAndWaitingTask ==
    /\ lb_task = "run"
    /\ task_queue # <<>>
    /\ \E i \in 1..Len(workers) :
          /\ Len(workers[i].active_tasks) = workers[i].max_concurrent
          /\ "*" \in workers[i].task_types

\* The scheduling loop assigns task t in this step
Assigned(t) ==
    /\ t \in 1..Len(tasks)
    /\ tasks[t].exec = "none"
    /\ tasks'[t].exec = "running"

\* The tasks left waiting in the queue after the step
Waiting == {task_queue'[k] : k \in 1..Len(task_queue')}

\* C13: in a step in which the scheduling loop assigns a task, no task left
\* waiting in the queue has a strictly higher priority than the assigned one.
C13_NoHigherPriorityWaiting ==
    [][\A t \in 1..Len(tasks) :
          Assigned(t) =>
             \A q \in Waiting : tasks[q].priority <= tasks[t].priority]_vars

\* C13 witness: a critical task submitted after a normal task runs on a
\* worker that takes every task type while the normal task still waits
C13_Witness_CriticalOvertakesNormal ==
    \E i, j \in 1..Len(tasks) :
       /\ i < j
       /\ tasks[i].priority = 2 /\ tasks[j].priority = 4
       /\ tasks[j].exec = "running" /\ tasks[j].worker_id = "w1"
       /\ \E k \in 1..Len(task_queue) : task_queue[k] = i

\* C14: in a step in which the scheduling loop assigns a task, no task of the
\* same priority and the same task type that was created earlier is left
\* waiting in the queue.
C14_EqualPriorityInCreationOrder ==
    [][\A t \in 1..Len(tasks) :
          Assigned(t) =>
             \A q \in Waiting :
                (/\ tasks[q].priority = tasks[t].priority
                 /\ tasks[q].task_type = tasks[t].task_type) => t < q]_vars

\* C15: when the handler of a task that unregister_worker failed with
\* 'worker unregistered' returns or fails afterwards, the task keeps its
\* result and its error, it is not counted as completed, and get_task_info
\* goes on reporting it as failed.
C15_UnregisteredTaskStaysFailed ==
    [][\A i \in 1..Len(tasks) :
          (/\ tasks[i].error = "worker unregistered"
           /\ tasks[i].exec = "running"
           /\ tasks'[i].exec = "done") =>
             /\ tasks'[i].result = tasks[i].result
             /\ tasks'[i].error = tasks[i].error
             /\ lb_metrics'.tasks_completed = lb_metrics.tasks_completed
             /\ get_task_info(lb_active_tasks', completed_tasks', tasks',
                              tasks[i].task_id).status = "failed"]_vars

\* C25: no task has its completed_at assigned more than once, every task in
\* the completed history has had it assigned, and no task is in the completed
\* history twice.
C25_CompletedOnce ==
    /\ \A i \in 1..Len(tasks) : tasks[i].completed_at <= 1
    /\ \A h \in 1..Len(completed_tasks) :
          tasks[completed_tasks[h]].completed_at = 1
    /\ \A h, k \in 1..Len(completed_tasks) :
          completed_tasks[h] = completed_tasks[k] => h = k

\* The handler of task i raises or runs out of time in this step
TaskFails(i) ==
    /\ tasks[i].exec = "running"
    /\ tasks'[i].exec = "done"
    /\ tasks'[i].error \in {"handler", "timeout"}
    /\ tasks'[i].result = "none"

\* Task i waits in the queue of a running balancer and some registered worker
\* takes its type and has a free slot
Assignable(i) ==
    /\ lb_task = "run"
    /\ i \in 1..Len(tasks)
    /\ \E k \in 1..Len(task_queue) : task_queue[k] = i
    /\ _get_available_workers(workers, tasks[i].task_type) # <<>>

\* C36: under fair scheduling of the loop, a queued task for which a registered
\* worker has matching affinity and a free slot is eventually assigned, also
\* while a task of higher priority that no worker can take waits in the queue.
C36_AssignableTaskIsAssigned ==
    \A i \in 1..MaxQueueTasks :
        Assignable(i) ~> (i \in 1..Len(tasks) /\ tasks[i].assigned_at)

C27_StatusFollowsOutcome ==
    \A i \in 1..Len(tasks) :
       (/\ tasks[i].exec = "done"
        /\ ~ODHas(lb_active_tasks, tasks[i].task_id)
        /\ LastCompleted(completed_tasks, tasks, tasks[i].task_id) = i) =>
          LET info == get_task_info(lb_active_tasks, completed_tasks, tasks,
                                    tasks[i].task_id)
          IN /\ info.status = "completed" <=> tasks[i].error = "none"
             /\ info.status = "failed" <=> tasks[i].error # "none"

\* ---------------------------------------------------------------------------
\* Failsafe Monitor: properties
\* ---------------------------------------------------------------------------
\* The step is one poll of monitor_system_health
IsPoll == fm_polls' = fm_polls + 1

\* consecutive_failures of X after the step (0 while X is not registered)
FailuresOfX ==
    IF "X" \in DOMAIN health_status'
    THEN health_status'["X"].consecutive_failures ELSE 0

\* The events the step appends to the log
Gained == SubSeq(fm_events', Len(fm_events) + 1, Len(fm_events'))

\* The events the health check itself triggers for X in the step
GainedDirectForX ==
    SelectSeq(Gained, LAMBDA e : ~e.threshold /\ e.component = Name("X"))

IsHealthEvent(e, level) ==
    /\ e.condition = "component_failure"
    /\ e.level = level
    /\ e.component = Name("X")
    /\ ~e.threshold

IsBreachWarning(e) ==
    /\ e.condition = "component_failure"
    /\ e.level = "warning"
    /\ e.threshold
    /\ e.component.failure >= 1

\* No component other than X has any counter
OnlyXHasFailed ==
    \A k \in 1..Len(event_counters') : event_counters'[k][1][2].base = "X"

\* C3 as stated: over three consecutive failed polls of X the log gains one
\* warning event at the first, nothing at the second and one critical event
\* at the third failure, and no other event.
C3_Original_OnlyWarningAndCritical ==
    [][(IsPoll /\ OnlyXHasFailed /\ FailuresOfX \in 1..3) =>
          /\ FailuresOfX = 1 =>
                Len(Gained) = 1 /\ IsHealthEvent(Gained[1], "warning")
          /\ FailuresOfX = 2 => Gained = <<>>
          /\ FailuresOfX = 3 =>
                Len(Gained) = 1 /\ IsHealthEvent(Gained[1], "critical")]_vars

\* C3 amended: over three consecutive failed polls of X the health check
\* itself appends for X exactly one warning event at the first failure,
\* nothing at the second and exactly one critical event at the third; every
\* other event the polls append for X is a synthetic warning-level
\* component_failure breach event of the threshold check, filed under a
\* component name derived from X.
C3_HealthEventsWarningThenCritical ==
    [][(IsPoll /\ FailuresOfX \in 1..3) =>
          /\ FailuresOfX = 1 =>
                /\ Len(GainedDirectForX) = 1
                /\ IsHealthEvent(GainedDirectForX[1], "warning")
          /\ FailuresOfX = 2 => GainedDirectForX = <<>>
          /\ FailuresOfX = 3 =>
                /\ Len(GainedDirectForX) = 1
                /\ IsHealthEvent(GainedDirectForX[1], "critical")
          /\ \A k \in 1..Len(Gained) :
                Gained[k].component.base = "X" =>
                   \/ IsHealthEvent(Gained[k], Gained[k].level)
                   \/ IsBreachWarning(Gained[k])]_vars

\* X has failed three polls in a row; the log holds its warning, its critical
\* event and a breach event of the threshold check
C3_Witness_ThreeFailures ==
    /\ "X" \in DOMAIN health_status
    /\ health_status["X"].consecutive_failures = 3
    /\ \E i, j, k \in 1..Len(fm_events) :
          /\ i < j
          /\ IsHealthEvent(fm_events[i], "warning")
          /\ IsHealthEvent(fm_events[j], "critical")
          /\ fm_events[k].component.base = "X"
          /\ IsBreachWarning(fm_events[k])

\* C4 as stated: a fourth or later consecutive failed poll of a component
\* appends no event to the log.
C4_Original_NoEventAfterThird ==
    [][(IsPoll /\ OnlyXHasFailed /\ FailuresOfX >= 4) =>
          fm_events' = fm_events]_vars

\* C4 amended: after three consecutive failed health checks of X, every
\* further consecutive failed poll appends exactly one more critical
\* component_failure event for X (followed by the alert and log actions),
\* and the threshold check may add breach events to it; the events stop only
\* when a successful check resets the consecutive-failure counter.
C4_CriticalOnEveryLaterFailure ==
    [][(IsPoll /\ FailuresOfX >= 4) =>
          /\ Len(GainedDirectForX) = 1
          /\ IsHealthEvent(GainedDirectForX[1], "critical")
          /\ GainedDirectForX[1].actions_taken =
                <<[action_id |-> "send_alert", error |-> FALSE],
                  [action_id |-> "log_event", error |-> FALSE]>>
          /\ GainedDirectForX[1].timestamp = fm_clock']_vars

\* X has failed four polls in a row and the log holds two critical events
C4_Witness_FourFailures ==
    /\ "X" \in DOMAIN health_status
    /\ health_status["X"].consecutive_failures >= 4
    /\ \E i, j \in 1..Len(fm_events) :
          /\ i < j
          /\ IsHealthEvent(fm_events[i], "critical")
          /\ IsHealthEvent(fm_events[j], "critical")

\* The ids of the actions executed for an event
ActionsTaken(event) ==
    {event.actions_taken[j].action_id : j \in 1..Len(event.actions_taken)}

\* C16: for every event emitted in a step and every registered action, the
\* action is executed for the event if and only if the action is enabled, the
\* event's condition is in the action's condition set, and the action's level
\* equals the event's level or is info; an action bound only to sync_failure
\* is not executed for a component_failure event.
C16_ActionRunsIffMatching ==
    [][\A k \in (Len(fm_events) + 1)..Len(fm_events') :
          \A n \in 1..Len(fm_actions) :
             LET event == fm_events'[k]
                 action == fm_actions[n]
             IN /\ action.action_id \in ActionsTaken(event)
                     <=> /\ action.enabled
                         /\ event.condition \in action.conditions
                         /\ (action.level = event.level
                                \/ action.level = "info")
                /\ (action.conditions = {"sync_failure"}
                       /\ event.condition = "component_failure")
                     => action.action_id \notin ActionsTaken(event)]_vars

\* C16 witness: the action bound only to sync_failure has run for a
\* sync_failure event and was passed over by a later component_failure event
\* of its own level, and the disabled catch-all was passed over too
C16_Witness_SyncOnlyPassedOver ==
    \E j, k \in 1..Len(fm_events) :
       /\ j < k
       /\ fm_events[j].condition = "sync_failure"
       /\ "sync_only" \in ActionsTaken(fm_events[j])
       /\ fm_events[k].condition = "component_failure"
       /\ fm_events[k].level = "warning"
       /\ "sync_only" \notin ActionsTaken(fm_events[k])
       /\ "restart_component" \in ActionsTaken(fm_events[k])
       /\ HasAction(fm_actions, "standby")
       /\ "standby" \notin ActionsTaken(fm_events[k])

\* ---------------------------------------------------------------------------
\* Sync Manager: properties
\* ---------------------------------------------------------------------------
\* The positions of the most recent min(5, n) recorded checks
RecentChecks ==
    {k \in 1..Len(sync_history) : k > Len(sync_history) - 5}

\* C17: is_synchronized() returns true exactly when strictly more than half of
\* the most recent min(5, n) recorded checks were synchronized, and false
\* when no check is recorded.
C17_SynchronizedIffStrictMajority ==
    sm_result.op = "is_synchronized" =>
       (sm_result.ret <=>
          /\ sync_history # <<>>
          /\ 2 * Cardinality({k \in RecentChecks : sync_history[k].synchronized})
                > Cardinality(RecentChecks))

\* C18: for a timestamp that names an instant, validate_timestamp reports as
\* drift the distance between that instant and the clock, the same before and
\* after the clock, and synchronized exactly when the drift is at most
\* SYNC_TOLERANCE; ten seconds in the past give drift 10, not synchronized.
C18_DriftIsAbsoluteDifference ==
    (sm_result.op = "validate_timestamp"
       /\ sm_result.ts.form \in {"Z", "offset"}) =>
       LET instant == sm_result.now + sm_result.ts.offset
           distance == IF instant >= sm_result.now
                       THEN instant - sm_result.now
                       ELSE sm_result.now - instant
       IN /\ sm_result.ret.valid
          /\ sm_result.ret.drift = distance
          /\ sm_result.ret.synchronized <=> distance <= SYNC_TOLERANCE
          /\ sm_result.ts.offset = -10 =>
                (sm_result.ret.drift = 10 /\ ~sm_result.ret.synchronized)

\* C18 witness: a timestamp ten seconds in the past was validated after one
\* exactly SYNC_TOLERANCE seconds off was found synchronized
C18_Witness_TenSecondsInThePast ==
    /\ sm_result.op = "validate_timestamp"
    /\ sm_result.ts.offset = -10
    /\ sm_result.ret.drift = 10
    /\ \E k \in 1..Len(sync_history) :
          sync_history[k].drift = SYNC_TOLERANCE /\ sync_history[k].synchronized

\* The entry of conditions_config for a condition
ConfigOf(condition) ==
    CHOOSE c \in {conditions_config[i] : i \in 1..Len(conditions_config)} :
        c.condition = condition

\* C32: every breach event the threshold check emits in a step carries a
\* condition and a component for which the log holds, before it and inside
\* the window of the condition, at least threshold events of that condition
\* and that component.
C32_BreachNamesItsKey ==
    [][\A k \in (Len(fm_events) + 1)..Len(fm_events') :
          LET event == fm_events'[k]
              cfg == ConfigOf(event.condition)
              counted == {j \in 1..(k - 1) :
                            /\ fm_events'[j].condition = event.condition
                            /\ fm_events'[j].component = event.component
                            /\ fm_events'[j].timestamp >
                                  fm_clock' - cfg.window_minutes * TicksPerMinute}
          IN event.threshold => Cardinality(counted) >= cfg.threshold]_vars

\* The longest window of conditions_config, in time units
LongestWindow ==
    LET w == {conditions_config[c].window_minutes : c \in 1..Len(conditions_config)}
    IN TicksPerMinute * (CHOOSE m \in w : \A n \in w : n <= m)

\* The time of the last event that a failed health check or a caller of
\* trigger_event has recorded (0: none): the events counted under the name of
\* a component itself
LastDirectEvent(counters) ==
    LET direct == {k \in 1..Len(counters) : counters[k][1][2].failure = 0}
        at == UNION {{counters[k][2][n] : n \in 1..Len(counters[k][2])} :
                        k \in direct}
    IN IF at = {} THEN 0 ELSE CHOOSE m \in at : \A n \in at : n <= m

\* C37: once every health check succeeds and nobody calls trigger_event, a pass
\* of the monitor made more than the longest threshold window after the last
\* such event records nothing: the event log and the set of counter keys are
\* as they were before the pass.
C37_QuietAfterLongestWindow ==
    [][(/\ fm_polls' = fm_polls + 1
        /\ \A name \in DOMAIN health_status' : health_status'[name].healthy
        /\ LastDirectEvent(event_counters') + LongestWindow < fm_clock') =>
          /\ fm_events' = fm_events
          /\ Len(event_counters') = Len(event_counters)]_vars

\* C30: for every event emitted in a step, actions_taken lists the matching
\* actions, all of them, in registration order; the entry of an action whose
\* handler raises carries the error, the entries of the others do not, and
\* the matching actions registered after a failing one are in the list and
\* have their execution counted.
C30_FailedActionDoesNotStopLater ==
    [][\A k \in (Len(fm_events) + 1)..Len(fm_events') :
          LET event == fm_events'[k]
              matching == SelectSeq(fm_actions,
                                    LAMBDA a : ActionApplies(a, event))
          IN /\ Len(event.actions_taken) = Len(matching)
             /\ \A i \in 1..Len(matching) :
                   /\ event.actions_taken[i].action_id = matching[i].action_id
                   /\ event.actions_taken[i].error = matching[i].raises]_vars

\* C30 witness: an event for which the action with the raising handler was
\* attempted and recorded with its error, and a matching action registered
\* after it was executed; the failing action has no execution counted
C30_Witness_LaterActionAfterFailure ==
    \E k \in 1..Len(fm_events) :
       \E i, j \in 1..Len(fm_events[k].actions_taken) :
          /\ i < j
          /\ fm_events[k].actions_taken[i].action_id = "faulty"
          /\ fm_events[k].actions_taken[i].error
          /\ fm_events[k].actions_taken[j].action_id = "sync_only"
          /\ ~fm_events[k].actions_taken[j].error
          /\ \E n \in 1..Len(fm_actions) :
                /\ fm_actions[n].action_id = "faulty"
                /\ fm_actions[n].execution_count = 0
          /\ \E n \in 1..Len(fm_actions) :
                /\ fm_actions[n].action_id = "sync_only"
                /\ fm_actions[n].execution_count > 0

\* ---------------------------------------------------------------------------
\* Buffer System: properties
\* ---------------------------------------------------------------------------
\* C5 as stated: the retry_count of a buffer entry never exceeds its
\* max_retries, because an entry that has failed max_retries times is
\* abandoned and never dispatched again.
C5_RetryCountBounded ==
    \A i \in 1..Len(buffer_entries) :
        buffer_entries[i].retry_count <= buffer_entries[i].max_retries

\* C10: whenever add_entry has returned an entry id, the buffer holds at most
\* max_buffer_size entries, whatever add_entry, processing, cleanup, flush,
\* stop and start steps came before.
C10_AddEntryKeepsBufferWithinSize ==
    (bs_last.op = "add_entry" /\ bs_last.ok) =>
        Len(buffer_entries) <= max_buffer_size

\* add_entry found the buffer full, evicted, and returned an id with the
\* buffer filled to its limit again
C10_Witness_AddAfterEviction ==
    /\ bs_last.op = "add_entry"
    /\ bs_last.ok
    /\ bs_last.cleaned > 0
    /\ Len(buffer_entries) = max_buffer_size

\* C23: an entry that is unprocessed, unexpired and below its retry cap is
\* still in the buffer after every step (add_entry, processing, cleanup,
\* flush, stop, start).
C23_LiveEntriesStay ==
    [][\A i \in 1..Len(buffer_entries) :
          LET e == buffer_entries[i]
          IN (/\ ~e.processed
              /\ ~is_expired(e, bs_now')
              /\ e.retry_count < e.max_retries)
                => \E k \in 1..Len(buffer_entries') :
                      /\ buffer_entries'[k].entry_id = e.entry_id
                      /\ buffer_entries'[k].created_at = e.created_at
                      /\ buffer_entries'[k].data = e.data]_vars

\* A capped list after a step: at most cap records, and when a record was
\* appended the records before it are the old ones in their order, without
\* the oldest one if the list was at its cap
KeepsNewest(old, new, cap) ==
    /\ Len(new) <= cap
    /\ new # old =>
          LET dropped == Len(old) + 1 - Len(new)
          IN /\ dropped \in {0, 1}
             /\ dropped = 1 => Len(old) = cap
             /\ SubSeq(new, 1, Len(new) - 1)
                   = SubSeq(old, dropped + 1, Len(old))

\* C33: the command history, the failsafe event log and the completed-task
\* history never hold more records than their cap, and an append at the cap
\* drops exactly the oldest record and keeps the others in arrival order.
C33_CapsKeepNewest ==
    [][/\ KeepsNewest(command_history, command_history', max_history)
       /\ KeepsNewest(fm_events, fm_events', max_events)
       /\ KeepsNewest(completed_tasks, completed_tasks',
                      max_completed_history)]_vars

\* C33 witness: each of the three lists is at its cap after one record more
\* than the cap was appended, and its first record is the second one that
\* arrived
C33_Witness_OldestDropped ==
    /\ Len(command_history) = max_history
    /\ command_history[1].command = 2
    /\ Len(fm_events) = max_events
    /\ fm_events[1].condition = "component_failure"
    /\ EventsCounted(event_counters) = max_events + 1
    /\ Len(completed_tasks) = max_completed_history
    /\ completed_tasks[1] = 2

\* The entries the processing loop may pick: neither processed nor expired
Ready(entries, now) ==
    {j \in 1..Len(entries) : ~entries[j].processed /\ ~is_expired(entries[j], now)}

\* C31: the entry a pass of the processing loop hands to process_entry has
\* maximal priority among the unprocessed, unexpired entries and is the
\* earliest created among those of its priority.
C31_DispatchPicksFirstInOrder ==
    [][(bs_last'.op = "process_entry" /\ buffer_entries' # buffer_entries) =>
          \A i \in 1..Len(buffer_entries) :
             buffer_entries'[i] # buffer_entries[i] =>
                \A j \in Ready(buffer_entries, bs_now) :
                   \/ buffer_entries[j].priority < buffer_entries[i].priority
                   \/ /\ buffer_entries[j].priority = buffer_entries[i].priority
                      /\ buffer_entries[i].created_at
                            <= buffer_entries[j].created_at]_vars

\* The entries of a list, as a set
Entries(entries) == {entries[i] : i \in 1..Len(entries)}

\* The entry created at time t is in the buffer of a running Buffer System,
\* unprocessed and unexpired, and its processor succeeds whenever it is called
Processable(t) ==
    /\ bs_running /\ processing_enabled
    /\ \E e \in Entries(buffer_entries) :
          /\ e.created_at = t
          /\ ~e.processed /\ ~is_expired(e, bs_now)
          /\ ProcessorResults(e) = {TRUE}

\* The entry created at time t has been processed, or has left the buffer or
\* expired before its turn came
Settled(t) ==
    \A e \in Entries(buffer_entries) :
        e.created_at = t => e.processed \/ is_expired(e, bs_now)

\* C38: under fair scheduling of the processing loop, every unprocessed and
\* unexpired entry whose processor would succeed is eventually processed, also
\* when an entry of higher priority or earlier position fails on every attempt.
C38_ProcessableEntryIsProcessed ==
    \A t \in 1..MaxDispatchNow : Processable(t) ~> Settled(t)

\* C39: an entry added with add_entry while the Buffer System is not running,
\* before its first start() or between stop() and the next start(), is still
\* in the buffer when start() has completed: loading the snapshot does not
\* discard the entries held in memory.
C39_StartKeepsEntriesAddedWhileStopped ==
    [][(/\ ~bs_running /\ bs_running'
        /\ bs_last.op = "add_entry" /\ bs_last.ok) =>
          \E e \in Entries(buffer_entries') : e.created_at = bs_last.at]_vars

\* C40: while the local clock advances without jumps the periodic check never
\* records a drift correction, however long the manager has been running:
\* drift_corrections stays 0, time_offset stays 0 and get_corrected_time()
\* returns the local time.
C40_SteadyClockNeedsNoCorrection ==
    /\ sm_metrics.drift_corrections = 0
    /\ time_offset = 0
    /\ get_corrected_time(time_offset, sm_clock) = sm_clock
    /\ sm_result.op = "get_corrected_time" => sm_result.ret = sm_result.now

\* C34: a pass of _cleanup_buffer (in the cleanup loop, in a flush, or in an
\* add_entry that finds the buffer full) removes no entry that is neither
\* processed nor expired while fewer than 90% of max_buffer_size such entries
\* are left; otherwise it keeps exactly floor(0.8 * max_buffer_size) of them,
\* every evicted one of a priority at most that of every retained one, and at
\* equal priority the evicted one is the older.
C34_EvictionKeepsNewestOfTopPriority ==
    [][(\/ bs_last'.op = "cleanup" /\ bs_now' = bs_now
        \/ bs_last'.op = "flush" /\ bs_fileops' # bs_fileops
        \/ bs_added' # bs_added /\ BufferIsFull(buffer_entries)) =>
          LET live == {e \in Entries(buffer_entries) :
                          ~e.processed /\ ~is_expired(e, bs_now')}
              retained == Entries(buffer_entries') \cap Entries(buffer_entries)
              evicted == live \ retained
              keep == (8 * max_buffer_size) \div 10
          IN /\ retained \subseteq live
             /\ IF 10 * Cardinality(live) < 9 * max_buffer_size
                THEN evicted = {}
                ELSE /\ Cardinality(retained) = keep
                     /\ \A e \in evicted, r \in retained :
                           \/ e.priority < r.priority
                           \/ /\ e.priority = r.priority
                              /\ e.created_at < r.created_at]_vars

\* C34 witness: a cleanup pass found three live entries, evicted one and kept
\* two of the top priority, the newer one first
C34_Witness_TruncatedToEightyPercent ==
    /\ bs_last.op = "cleanup"
    /\ bs_last.cleaned = 1
    /\ Len(buffer_entries) = (8 * max_buffer_size) \div 10
    /\ Len(buffer_entries) = 2
    /\ buffer_entries[1].priority = 1
    /\ buffer_entries[2].priority = 1
    /\ buffer_entries[1].created_at > buffer_entries[2].created_at

\* ---------------------------------------------------------------------------
\* Toggle Dispatcher: properties
\* ---------------------------------------------------------------------------
\* C6 as stated: under any interleaving of change_state calls no transition
\* is recorded, and no callback fired, with from_state equal to to_state.
C6_NoSelfTransition ==
    /\ \A h \in 1..Len(toggle.state_history) :
          toggle.state_history[h].from_state # toggle.state_history[h].to_state
    /\ \A f \in 1..Len(td_fired) :
          td_fired[f].from_state # td_fired[f].to_state

\* Calls c and c + 1 were made one after the other with the same target
\* state, each with no other call in progress, and both have returned
TwiceInARow(c) ==
    /\ c + 1 <= Len(td_calls)
    /\ td_calls[c].pc = "returned" /\ td_calls[c + 1].pc = "returned"
    /\ td_calls[c].alone /\ td_calls[c + 1].alone
    /\ td_calls[c].new_state = td_calls[c + 1].new_state

\* The number of accepted transitions among calls c and c + 1
AcceptedOf(c) ==
    (IF td_calls[c].committed THEN 1 ELSE 0)
        + (IF td_calls[c + 1].committed THEN 1 ELSE 0)

\* C7 as stated: two calls in a row with the same target leave change_count
\* incremented by exactly one, and the second returns success without
\* changing anything.
C7_Original_ExactlyOneIncrement ==
    \A c \in 1..Len(td_calls) :
        TwiceInARow(c) =>
            /\ td_calls[c + 1].after.change_count
                  = td_calls[c].before.change_count + 1
            /\ td_calls[c + 1].result
            /\ td_calls[c + 1].after = td_calls[c + 1].before

\* C7 amended: two calls in a row with the same target fire each callback at
\* most once in total and increment change_count by at most one: by one when
\* one of the two calls is an accepted transition, by nothing when the toggle
\* was already in the target state or the validators reject both calls.
\* Whenever the first call returns success, the second returns success
\* without changing state, previous_state, last_changed or the history and
\* without firing a callback.
C7_SecondCallIsNoOp ==
    \A c \in 1..Len(td_calls) :
        TwiceInARow(c) =>
            /\ AcceptedOf(c) <= 1
            /\ td_calls[c + 1].after.change_count
                  = td_calls[c].before.change_count + AcceptedOf(c)
            /\ \A f, g \in 1..Len(td_fired) :
                  (/\ f # g
                   /\ td_fired[f].call \in {c, c + 1}
                   /\ td_fired[g].call \in {c, c + 1})
                     => <<td_fired[f].kind, td_fired[f].index>>
                           # <<td_fired[g].kind, td_fired[g].index>>
            /\ td_calls[c].result =>
                  /\ td_calls[c + 1].result
                  /\ ~td_calls[c + 1].committed
                  /\ td_calls[c + 1].after = td_calls[c + 1].before

\* An accepted transition with a callback, followed by the same call again
C7_Witness_TransitionThenRepeat ==
    \E c \in 1..Len(td_calls) :
        /\ TwiceInARow(c)
        /\ td_calls[c].committed
        /\ td_calls[c + 1].result
        /\ \E f \in 1..Len(td_fired) : td_fired[f].call = c

\* The step in which call c gets a verdict that is not an acceptance
Rejecting(c) ==
    /\ c \in 1..Len(td_calls')
    /\ td_calls'[c].verdicts # <<>>
    /\ td_calls'[c].verdicts[Len(td_calls'[c].verdicts)] # "accept"
    /\ \/ c > Len(td_calls)
       \/ Len(td_calls'[c].verdicts) > Len(td_calls[c].verdicts)

\* C8: when a validator returns false or raises, change_state returns
\* failure in that step, leaves state, previous_state, last_changed,
\* change_count and the history as they were, runs no callback and no later
\* validator; the validators that ran are the ones registered before the
\* rejecting one, in registration order, and all of them accepted.
C8_RejectionChangesNothing ==
    [][\A c \in 1..MaxCalls :
          Rejecting(c) =>
             LET call == td_calls'[c]
                 n == Len(call.verdicts)
             IN /\ call.pc = "returned"
                /\ ~call.result
                /\ ~call.committed
                /\ Observed(toggle', td_fired') = Observed(toggle, td_fired)
                /\ n <= Len(toggle.validators)
                /\ \A v \in 1..(n - 1) : call.verdicts[v] = "accept"
                /\ \A f \in 1..Len(td_fired') : td_fired'[f].call # c]_vars

\* A call whose first validator accepted and whose second validator rejected,
\* on a toggle with a callback registered
C8_Witness_SecondValidatorRejects ==
    \E c \in 1..Len(td_calls) :
        /\ td_calls[c].pc = "returned"
        /\ ~td_calls[c].result
        /\ Len(td_calls[c].verdicts) = 2
        /\ td_calls[c].verdicts[2] # "accept"
        /\ toggle.state_change_callbacks # <<>>

\* The callback invocations this step adds to the log
FiredNow == (Len(td_fired) + 1)..Len(td_fired')

\* The number of accepted transitions among the calls
CommittedCount(calls) == Cardinality({c \in 1..Len(calls) : calls[c].committed})

\* The callbacks an accepted transition to new_state has to run
CallbacksDue(tg, new_state) ==
    Len(tg.state_change_callbacks) + Len(CallbackList(tg, new_state))

\* C28: a toggle callback that raises leaves the accepted transitions in
\* place (change_count and the history count every one of them, state and
\* previous_state are those of the last record); a call with a callback that
\* raised still runs every callback due and returns success; and each
\* callback that raises adds one to the dispatcher's callback_errors.
C28_CallbackFailureIsContained ==
    [][LET raisedNow == {f \in FiredNow : td_fired'[f].raised}
       IN /\ raisedNow # {} =>
                /\ toggle'.change_count = CommittedCount(td_calls')
                /\ Len(toggle'.state_history) = CommittedCount(td_calls')
                /\ toggle'.state =
                      toggle'.state_history[Len(toggle'.state_history)].to_state
                /\ toggle'.previous_state =
                      toggle'.state_history[Len(toggle'.state_history)].from_state
          /\ \A c \in 1..Len(td_calls') :
                (/\ td_calls'[c].pc = "returned"
                 /\ \E f \in 1..Len(td_fired') :
                       td_fired'[f].call = c /\ td_fired'[f].raised) =>
                   /\ td_calls'[c].result
                   /\ Cardinality({f \in 1..Len(td_fired') :
                                      td_fired'[f].call = c})
                         = CallbacksDue(toggle', td_calls'[c].new_state)
          /\ raisedNow # {} =>
                td_metrics'.callback_errors
                   = td_metrics.callback_errors + Cardinality(raisedNow)]_vars

\* The place of a callback list in _execute_callbacks
StageRank(kind) == IF kind = "state_change" THEN 0 ELSE 1

\* C29: in the step that accepts a transition, state, previous_state,
\* last_changed, change_count and the history are written and no callback of
\* the call has run before; the callbacks of a call run generic first, then
\* on/off, each list in registration order; and every callback finds the
\* toggle in the state of its transition.
C29_CallbacksAfterUpdateInOrder ==
    [][/\ \A c \in 1..Len(td_calls') :
             (/\ td_calls'[c].committed
              /\ (c > Len(td_calls) \/ ~td_calls[c].committed)) =>
                /\ toggle'.state = td_calls'[c].new_state
                /\ toggle'.previous_state = toggle.state
                /\ toggle'.last_changed = td_clock'
                /\ toggle'.change_count = toggle.change_count + 1
                /\ toggle'.state_history =
                      Append(toggle.state_history,
                             [from_state |-> toggle.state,
                              to_state |-> td_calls'[c].new_state,
                              change_count |-> toggle.change_count])
                /\ \A f \in 1..Len(td_fired) : td_fired[f].call # c
       /\ \A f \in FiredNow :
             /\ td_calls'[td_fired'[f].call].committed
             /\ td_fired'[f].kind \in {"state_change", td_fired'[f].to_state}
             /\ \A g \in 1..(f - 1) :
                   td_fired'[g].call = td_fired'[f].call =>
                      \/ StageRank(td_fired'[g].kind) < StageRank(td_fired'[f].kind)
                      \/ /\ td_fired'[g].kind = td_fired'[f].kind
                         /\ td_fired'[g].index < td_fired'[f].index
             /\ td_fired'[f].seen_state = td_fired'[f].to_state]_vars

\* The entry_id, data and priority of each entry, in order
IdDataPriority(entries) ==
    [i \in 1..Len(entries) |->
        <<entries[i].entry_id, entries[i].data, entries[i].priority>>]

\* C11 as stated: a load_from_file that follows a save_to_file yields exactly
\* the saved entries that are not expired at load time, with the same
\* entry_id, data and priority, in the same order.
C11_SaveThenLoadRestores ==
    [][(bs_last.op = "save" /\ bs_last'.op = "load") =>
          IdDataPriority(buffer_entries')
             = IdDataPriority(SelectSeq(buffer_entries,
                                 LAMBDA e : ~is_expired(e, bs_now)))]_vars

\* C12: at every instant, also when the process has stopped in the middle of
\* save_to_file, the buffer file is absent or holds the complete content of
\* one save (of this run or an earlier one).
C12_FileIsAbsentOrWholeSave ==
    bs_file.exists => (bs_file.complete /\ bs_file \in bs_saved)

\* The process stopped inside a save that was replacing an earlier snapshot:
\* the temporary file is partial and the buffer file is still there
C12_Witness_StoppedInsideSave ==
    /\ bs_last.op = "crash"
    /\ bs_tmp.exists /\ ~bs_tmp.complete
    /\ bs_file.exists
    /\ Cardinality(bs_saved) >= 2

Init == InitRouter /\ InitLB /\ InitFM /\ InitBS /\ InitTD /\ InitSM

SpecRouter == Init /\ [][NextRouter]_vars

SpecLB == Init /\ [][NextLB]_vars

SpecFailsafe == Init /\ [][NextFM]_vars

SpecBuffer == Init /\ [][NextBS]_vars

SpecToggle == Init /\ [][NextTD]_vars

SpecSnapshot == Init /\ [][NextSnapshot]_vars
SpecLBQueue == Init /\ [][NextLBQueue]_vars
SpecFailsafeActions == Init /\ [][NextFMActions]_vars
SpecFailsafeQuiet == Init /\ [][NextFMQuiet]_vars
SpecSync == Init /\ [][NextSM]_vars
SpecRouting == Init /\ [][NextRouting]_vars

SpecRouterCalls == Init /\ [][NextRouterCalls]_vars
SpecLBInfo == Init /\ [][NextLBInfo]_vars

\* The scheduling loop keeps making passes (process_queue sleeps at most one
\* second between two of them) and every handler returns.
SpecLBQueueFair ==
    /\ Init /\ [][NextLBQueue]_vars
    /\ WF_vars(LB_process_queue)
    /\ WF_vars(\E i \in 1..MaxQueueTasks : LB_execute_done(i, "return"))
SpecToggleCallbacks == Init /\ [][NextTDCallbacks]_vars
SpecBufferDispatch == Init /\ [][NextBSDispatch]_vars

\* The processing loop keeps making passes: process_buffer sleeps 0.1 s between
\* two of them and then picks an entry again.
SpecBufferDispatchFair ==
    /\ Init /\ [][NextBSLoop]_vars
    /\ WF_vars((\E success \in BOOLEAN : BS_process(success)) \/ BS_process_again)
    /\ WF_vars(BS_sleep)
SpecCaps == Init /\ [][NextCaps]_vars
SpecSyncLoop == Init /\ [][NextSMLoop]_vars

====
